---- MODULE Spec2Model ----
(***************************************************************************)
(* Model of the bit-survey-app server (src/unnamed/part_001, the server    *)
(* with the submission gate): the in-memory rate limiter, the origin and   *)
(* session-token checks of sessionMiddleware, the legacy survey recorder,  *)
(* the admin login and authMiddleware.                                     *)
(*                                                                         *)
(* Strings that the code searches with String.includes are sequences of    *)
(* tokens; an absent header (undefined) and the empty string are both      *)
(* falsy in JavaScript and are both the empty sequence << >>.              *)
(* Time is Date.now() in milliseconds.                                     *)
(***************************************************************************)
EXTENDS Integers, Sequences, FiniteSets, Bags, TLC

VARIABLES
    now,             \* Date.now(), milliseconds
    ticks,           \* number of clock advances so far (bounds the run)
    rateLimitStore,  \* Map clientIp -> [count, resetTime]; DOMAIN = keys present
    surveys,         \* table surveys: bag of rows
    admin_users,     \* table admin_users: username -> row
    questions,       \* table questions: id -> row
    sessionToken,    \* << >> or <<t>>: the last cookie set by GET /api/session
    adminToken,      \* << >> or <<t>>: the last token returned by POST /admin/login
    req,             \* the last request handled
    res,             \* the response to it
    validInWindow,   \* history: per ip, requests with valid origin and cookie
                     \* that arrived in the limiter's current window
    loginHist,       \* history: [wrong: consecutive wrong-password logins of
                     \* "admin" just answered, before: that number when
                     \* adminToken was issued]
    norm,            \* the database of the server with the normalized schema
                     \* (src/unnamed/part_002): its tables and its SQL mode
    inflight,        \* handlers of create requests that wait at an await:
                     \* sequence of [r: the request, nextNum, nextOrder]
    legacyDb,        \* the MySQL server behind src/unnamed/part_001: its SQL
                     \* mode and the AUTO_INCREMENT counter of table questions
    boot,            \* the process of src/unnamed/part_001 from start(): where it
                     \* is, the failed connection attempts and the delays so far
    passed,          \* history: per ip, the times of the requests that
                     \* sessionMiddleware handed to the survey handler
    kiosk            \* the page of the kiosk (src/public/js/app.js)

vars == <<now, ticks, rateLimitStore, surveys, admin_users, questions,
          sessionToken, adminToken, req, res, validInWindow, loginHist, norm,
          inflight, legacyDb, boot, passed, kiosk>>

-----------------------------------------------------------------------------
(* Program constants *)

RATE_LIMIT_WINDOW == 10 * 60 * 1000

RATE_LIMIT_MAX == 5

JWT_SECRET == "bkpm-survey-secret-key-2024"

SessionTtlSeconds == 10 * 60

AdminTtlSeconds == 24 * 60 * 60

(* Bounds of the model *)

MaxTicks == 2

MaxOverLimit == 2

MaxWrongLogins == 2

-----------------------------------------------------------------------------
(* Values requests are built from *)

IPs == {"10.0.0.1", "172.16.0.1"}

HostValue == <<"survey.example">>

\* Address headers of a request: X-Forwarded-For (already split at ','),
\* X-Real-IP, and express's req.ip.
Direct == [xForwardedFor |-> << >>, xRealIp |-> << >>, ip |-> "10.0.0.1"]

\* the same client behind the Nginx proxy (trust proxy: req.ip is the client)
ViaProxy ==
    [xForwardedFor |-> <<"10.0.0.1", "172.16.0.1">>, xRealIp |-> <<"10.0.0.1">>,
     ip |-> "10.0.0.1"]

AddressProfiles == {Direct, ViaProxy}

\* Origin and Referer headers of a request
SameSite == [origin |-> <<"https://", "survey.example">>, referer |-> << >>]

NoOrigin == [origin |-> << >>, referer |-> << >>]

EvilSite ==
    [origin |-> <<"https://", "evil-site.com">>,
     referer |-> <<"https://", "evil-site.com", "/attack">>]

EvilOrigin == [origin |-> <<"https://", "evil-site.com">>, referer |-> << >>]

RefererOnly ==
    [origin |-> << >>, referer |-> <<"http://", "127.0.0.1", ":3000", "/">>]

Localhost ==
    [origin |-> <<"http://", "localhost", ":3000">>,
     referer |-> <<"https://", "evil-site.com", "/attack">>]

OriginProfiles == {SameSite, NoOrigin, EvilSite, EvilOrigin, RefererOnly, Localhost}

\* the rows of table questions after the seed: id -> row
DefaultTexts ==
    <<"Bagaimana kecepatan pelayanan kami?", "Bagaimana keramahan petugas kami?",
      "Bagaimana kejelasan informasi yang diberikan?",
      "Bagaimana kondisi fasilitas kami?",
      "Secara keseluruhan, bagaimana kepuasan Anda?">>

DefaultPositive ==
    <<"SANGAT CEPAT", "SANGAT RAMAH", "SANGAT JELAS", "SANGAT BAIK", "SANGAT PUAS">>

DefaultNeutral ==
    <<"CUKUP CEPAT", "CUKUP RAMAH", "CUKUP JELAS", "CUKUP BAIK", "CUKUP PUAS">>

DefaultNegative ==
    <<"KURANG CEPAT", "KURANG RAMAH", "KURANG JELAS", "KURANG BAIK", "KURANG PUAS">>

DefaultSubtitle == "Pilih salah satu penilaian"

SeedQuestions ==
    [i \in 1..5 |->
        [question_key |-> <<"q", i>>, question_text |-> DefaultTexts[i],
         question_subtitle |-> DefaultSubtitle,
         option_positive |-> DefaultPositive[i],
         option_neutral |-> DefaultNeutral[i],
         option_negative |-> DefaultNegative[i],
         display_order |-> i, is_active |-> 1]]

\* ids an admin request names: an existing question and none
QuestionIdInputs == {5, 6}

ExampleAnswers ==
    [q1 |-> "sangat_baik", q2 |-> "cukup_baik", q3 |-> "kurang_baik",
     q4 |-> "sangat_baik", q5 |-> "sangat_baik"]

\* req.body.questions: << >> when missing, <<answers>> when an object
Bodies == { << >>, <<ExampleAnswers>> }

-----------------------------------------------------------------------------
(* Helpers *)

\* String.prototype.includes on token sequences
Includes(s, sub) ==
    \E i \in 1..(Len(s) + 1) :
        /\ i + Len(sub) - 1 <= Len(s)
        /\ SubSeq(s, i, i + Len(sub) - 1) = sub

\* Math.ceil(a / b), b > 0
Ceil(a, b) == -((-a) \div b)

MapSet(m, k, v) == [x \in DOMAIN m \cup {k} |-> IF x = k THEN v ELSE m[x]]

\* jsonwebtoken: sign(payload, secret, {expiresIn}) at time t (ms)
jwtSign(payload, secret, ttl, t) ==
    [key |-> secret, payload |-> payload, iat |-> t \div 1000,
     exp |-> (t \div 1000) + ttl]

\* jsonwebtoken: verify(token, secret) does not throw at time t (ms)
jwtVerify(token, secret, t) ==
    /\ token.key = secret
    /\ (t \div 1000) < token.exp

\* decoded.type (undefined when the payload has no such claim)
TypeClaim(token) ==
    IF "type" \in DOMAIN token.payload THEN token.payload.type ELSE "undefined"

\* a response: status and error of the JSON body, retryAfter (-1: none),
\* Set-Cookie effects, the token and id of the body, data.total (-1: none),
\* and whether the route's handler (past its middleware) ran
NoRes ==
    [status |-> 0, error |-> "", retryAfter |-> -1, clearCookie |-> FALSE,
     setCookie |-> << >>, token |-> << >>, id |-> 0, total |-> -1,
     handlerRan |-> FALSE, message |-> "", list |-> << >>,
     questionsList |-> << >>, cards |-> << >>]

Json(status, error) == [NoRes EXCEPT !.status = status, !.error = error]

NoReq ==
    [route |-> "", xForwardedFor |-> << >>, xRealIp |-> << >>, ip |-> "",
     origin |-> << >>, referer |-> << >>, host |-> << >>, cookie |-> << >>,
     authorization |-> << >>, body |-> << >>, username |-> "", password |-> "",
     id |-> 0, fault |-> "none", method |-> "", path |-> << >>]

-----------------------------------------------------------------------------
(* Submission gate *)

getClientIp(r) ==
    IF r.xForwardedFor # << >> THEN Head(r.xForwardedFor)
    ELSE IF r.xRealIp # << >> THEN Head(r.xRealIp)
    ELSE r.ip

WindowExpired_Never(t, resetTime) == FALSE

\* the window test of the limiter
WindowExpired(t, resetTime) == t > resetTime

OverLimit_OffByOne(count) == count > RATE_LIMIT_MAX

\* the limit test of the limiter
OverLimit(count) == count >= RATE_LIMIT_MAX

validOrigin_AnyOrigin(r) == r.origin # << >>

validOrigin(r) ==
    /\ r.origin # << >>
    /\ \/ Includes(r.origin, r.host)
       \/ Includes(r.origin, <<"localhost">>)
       \/ Includes(r.origin, <<"127.0.0.1">>)

validReferer(r) ==
    /\ r.referer # << >>
    /\ \/ Includes(r.referer, r.host)
       \/ Includes(r.referer, <<"localhost">>)
       \/ Includes(r.referer, <<"127.0.0.1">>)

SessionTokenAccepted_AnyPurpose(token, t) == jwtVerify(token, JWT_SECRET, t)

\* the try block of the session check does not throw
SessionTokenAccepted(token, t) ==
    /\ jwtVerify(token, JWT_SECRET, t)
    /\ TypeClaim(token) = "survey_session"

\* ipData after the lazy reset
IpData(r, t, store) ==
    LET clientIp == getClientIp(r)
        ipData == IF clientIp \in DOMAIN store THEN store[clientIp]
                  ELSE [count |-> 0, resetTime |-> t + RATE_LIMIT_WINDOW]
    IN  IF WindowExpired(t, ipData.resetTime)
        THEN [count |-> 0, resetTime |-> t + RATE_LIMIT_WINDOW]
        ELSE ipData

Counted_NotYet(ipData) == ipData

\* the counter a passing request stores
Counted(ipData) == [ipData EXCEPT !.count = @ + 1]

RejectedStore_Counting(store, clientIp, ipData) ==
    MapSet(store, clientIp, [ipData EXCEPT !.count = @ + 1])

\* rateLimitStore after a request the gate rejects: an entry already in the
\* Map is the object the lazy reset assigned to, so the reset is kept; a fresh
\* ipData object was never put in the Map
RejectedStore(store, clientIp, ipData) ==
    IF clientIp \in DOMAIN store THEN [store EXCEPT ![clientIp] = ipData] ELSE store

GateVerdict_SessionFirst(overLimit, originOk, hasCookie, tokenOk) ==
    IF overLimit THEN "rate"
    ELSE IF ~hasCookie THEN "nocookie"
    ELSE IF ~tokenOk THEN "token"
    ELSE IF ~originOk THEN "origin"
    ELSE "next"

\* the order of the checks: the first one that fails answers the request
GateVerdict(overLimit, originOk, hasCookie, tokenOk) ==
    IF overLimit THEN "rate"
    ELSE IF ~originOk THEN "origin"
    ELSE IF ~hasCookie THEN "nocookie"
    ELSE IF ~tokenOk THEN "token"
    ELSE "next"

\* the response of the gate to a request that carries no cookie
NoCookieResponse == Json(401, "Session tidak valid")

\* the response of the catch block of the session check
BadTokenResponse == [Json(401, "Session expired") EXCEPT !.clearCookie = TRUE]

\* sessionMiddleware(req, res, next) at time t: whether next() is called, the
\* response when it is not, and rateLimitStore afterwards
sessionMiddleware(r, t, store) ==
    LET clientIp == getClientIp(r)
        ipData == IpData(r, t, store)
        store1 == RejectedStore(store, clientIp, ipData)
        verdict == GateVerdict(OverLimit(ipData.count),
                               validOrigin(r) \/ validReferer(r),
                               r.cookie # << >>,
                               r.cookie # << >> /\ SessionTokenAccepted(Head(r.cookie), t))
    IN  CASE verdict = "rate" ->
               [next |-> FALSE, store |-> store1,
                res |-> [Json(429, "Terlalu banyak request") EXCEPT
                           !.retryAfter = Ceil(ipData.resetTime - t, 1000)]]
          [] verdict = "origin" ->
               [next |-> FALSE, store |-> store1,
                res |-> Json(403, "Request harus dari browser")]
          [] verdict = "nocookie" ->
               [next |-> FALSE, store |-> store1, res |-> NoCookieResponse]
          [] verdict = "token" ->
               [next |-> FALSE, store |-> store1, res |-> BadTokenResponse]
          [] verdict = "next" ->
               [next |-> TRUE, store |-> MapSet(store, clientIp, Counted(ipData)),
                res |-> NoRes]

-----------------------------------------------------------------------------
(* Tokens a client can present *)

SessionPayload(ip, t) == [type |-> "survey_session", ip |-> ip, createdAt |-> t]

\* a token with the session payload signed with a key that is not JWT_SECRET
ForgedSession(t) ==
    jwtSign(SessionPayload("10.0.0.1", t), "not-the-secret", SessionTtlSeconds, t)

CookieChoices(t) == { << >>, <<ForgedSession(t)>>, sessionToken, adminToken }

-----------------------------------------------------------------------------
(* Actions *)

\* The clock: the k-th advance is by schedule[k] (cyclically).
TickBy(schedule) ==
    /\ ticks < MaxTicks
    /\ now' = now + schedule[(ticks % Len(schedule)) + 1]
    /\ ticks' = ticks + 1
    /\ UNCHANGED <<rateLimitStore, surveys, admin_users, questions, sessionToken,
                   adminToken, req, res, validInWindow, loginHist, norm, inflight, legacyDb, boot, passed, kiosk>>

\* a run meets the end of a limiter window exactly (now = resetTime, which is
\* also the expiry of a session cookie issued at its start), then the
\* millisecond after it
Tick == TickBy(<<RATE_LIMIT_WINDOW, 1>>)

\* the clock passes the end of the window that began at startup
WindowEnds ==
    /\ now <= RATE_LIMIT_WINDOW
    /\ now' = RATE_LIMIT_WINDOW + 1
    /\ ticks' = ticks + 1
    /\ UNCHANGED <<rateLimitStore, surveys, admin_users, questions, sessionToken,
                   adminToken, req, res, validInWindow, loginHist, norm, inflight,
                   legacyDb, boot, passed, kiosk>>

\* a run meets the expiry of an admin token
TickDay == TickBy(<<AdminTtlSeconds * 1000>>)

\* GET /api/session
GetSession ==
    \E a \in {Direct} :
        LET r == [NoReq EXCEPT !.route = "GET /api/session",
                               !.xForwardedFor = a.xForwardedFor,
                               !.xRealIp = a.xRealIp, !.ip = a.ip,
                               !.host = HostValue]
            token == jwtSign(SessionPayload(getClientIp(r), now), JWT_SECRET,
                             SessionTtlSeconds, now)
        IN  /\ sessionToken' = <<token>>
            /\ req' = r
            /\ res' = [NoRes EXCEPT !.status = 200, !.setCookie = <<token>>,
                                    !.handlerRan = TRUE]
            /\ UNCHANGED <<now, ticks, rateLimitStore, surveys, admin_users,
                           questions, adminToken, validInWindow, loginHist, norm, inflight, legacyDb, boot, passed, kiosk>>

\* questions.qN || null
Column(answers, k) == IF k \in DOMAIN answers THEN answers[k] ELSE "NULL"

SurveyRow(answers, ip) ==
    [q1_kecepatan |-> Column(answers, "q1"), q2_keramahan |-> Column(answers, "q2"),
     q3_kejelasan |-> Column(answers, "q3"), q4_fasilitas |-> Column(answers, "q4"),
     q5_kepuasan |-> Column(answers, "q5"), ip_address |-> ip]

\* the handler of POST /api/survey, entered by next(): the response and the table
SurveyHandler(r, dbOk, table) ==
    IF r.body = << >>
    THEN [res |-> [Json(400, "Invalid survey data") EXCEPT !.handlerRan = TRUE],
          surveys |-> table]
    ELSE IF ~dbOk
    THEN [res |-> [Json(500, "Failed to save survey") EXCEPT !.handlerRan = TRUE],
          surveys |-> table]
    ELSE [res |-> [NoRes EXCEPT !.status = 201, !.handlerRan = TRUE,
                                !.id = BagCardinality(table) + 1],
          surveys |-> table (+) SetToBag({SurveyRow(Head(r.body), getClientIp(r))})]

\* the request is one the gate has no reason to refuse but the limit
FullyValid(r, t) ==
    /\ validOrigin(r) \/ validReferer(r)
    /\ r.cookie # << >>
    /\ SessionTokenAccepted(Head(r.cookie), t)

\* POST /api/survey: sessionMiddleware, then the handler (the log of the
\* passing requests apart)
PostSurveyStep(addresses, origins, bodies, dbs) ==
    \E a \in addresses, h \in origins, c \in CookieChoices(now) :
      \E r \in {[NoReq EXCEPT !.route = "POST /api/survey",
                              !.xForwardedFor = a.xForwardedFor,
                              !.xRealIp = a.xRealIp, !.ip = a.ip,
                              !.origin = h.origin, !.referer = h.referer,
                              !.host = HostValue, !.cookie = c]} :
        \E gate \in {sessionMiddleware(r, now, rateLimitStore)} :
          LET ip == getClientIp(r)
              fresh == \/ ip \notin DOMAIN rateLimitStore
                       \/ WindowExpired(now, rateLimitStore[ip].resetTime)
              before == IF fresh THEN 0 ELSE validInWindow[ip]
          IN  /\ before < RATE_LIMIT_MAX + MaxOverLimit
              /\ rateLimitStore' = gate.store
              /\ validInWindow' =
                     [validInWindow EXCEPT
                        ![ip] = IF FullyValid(r, now) THEN before + 1 ELSE before]
              /\ IF gate.next
                 THEN \E b \in bodies, dbOk \in dbs :
                        \E out \in {SurveyHandler([r EXCEPT !.body = b], dbOk, surveys)} :
                          /\ req' = [r EXCEPT !.body = b]
                          /\ res' = out.res
                          /\ surveys' = out.surveys
                 ELSE /\ req' = r
                      /\ res' = gate.res
                      /\ surveys' = surveys
              /\ UNCHANGED <<now, ticks, admin_users, questions, sessionToken,
                             adminToken, loginHist, norm, inflight, legacyDb,
                             boot, kiosk>>

\* POST /api/survey: sessionMiddleware, then the handler
PostSurveyFrom(addresses, origins, bodies, dbs) ==
    /\ PostSurveyStep(addresses, origins, bodies, dbs)
    /\ UNCHANGED passed

PostSurvey == PostSurveyFrom(AddressProfiles, OriginProfiles, Bodies, BOOLEAN)

\* POST /api/survey, the time of a request that passes the gate being logged
PostSurveyLogged(addresses, origins, bodies, dbs) ==
    /\ PostSurveyStep(addresses, origins, bodies, dbs)
    /\ passed' = IF res'.handlerRan
                 THEN [passed EXCEPT ![getClientIp(req')] = Append(@, now)]
                 ELSE passed

\* the peer of the second address of IPs names that address in
\* X-Forwarded-For: sent to the server directly, and through the Nginx proxy,
\* which appends the peer's address to the header and sets X-Real-IP
\* (trust proxy: req.ip is the leftmost entry)
NamesOther == [xForwardedFor |-> <<"172.16.0.1">>, xRealIp |-> << >>, ip |-> "172.16.0.1"]

NamesOtherViaProxy ==
    [xForwardedFor |-> <<"172.16.0.1", "10.0.0.1">>, xRealIp |-> <<"10.0.0.1">>,
     ip |-> "172.16.0.1"]

\* POST /api/survey sent by one peer (the remote address of the connection,
\* which no header carries), the time of a request that passes the gate being
\* logged under the peer
PostSurveyOfPeer(peer, addresses, origins, bodies, dbs) ==
    /\ PostSurveyStep(addresses, origins, bodies, dbs)
    /\ passed' = IF res'.handlerRan
                 THEN [passed EXCEPT ![peer] = Append(@, now)]
                 ELSE passed

-----------------------------------------------------------------------------
(* Admin auth *)

bcryptHash(password) == <<"$2b$12$", password>>

bcryptCompare_AnyPassword(password, hash) == hash[1] = "$2b$12$"

bcryptCompare(password, hash) == hash = bcryptHash(password)

AdminPassword == "admin-pass"

OperatorPassword == "operator-pass"

\* admin_users after ensureAdminUser, with a second account deactivated out of band
SeedAdminUsers ==
    [u \in {"admin", "operator"} |->
        IF u = "admin"
        THEN [id |-> 1, password_hash |-> bcryptHash(AdminPassword),
              name |-> "Administrator", is_active |-> 1, last_login |-> << >>]
        ELSE [id |-> 2, password_hash |-> bcryptHash(OperatorPassword),
              name |-> "Operator", is_active |-> 0, last_login |-> << >>]]

Usernames == {"", "admin", "operator", "nobody"}

Passwords == {"", AdminPassword, OperatorPassword}

AdminPayload(user, username) ==
    [id |-> user.id, username |-> username, name |-> user.name]

\* SELECT * FROM admin_users WHERE username = ? AND is_active = 1
ActiveUsers(username, table) ==
    IF username \in DOMAIN table /\ table[username].is_active = 1
    THEN <<table[username]>> ELSE << >>

UnknownUserResponse_Leak == Json(401, "User not found")

\* the response of the login handler to a user that does not exist or is inactive
UnknownUserResponse == Json(401, "Invalid credentials")

\* the response of the login handler to a failed password comparison
WrongPasswordResponse == Json(401, "Invalid credentials")

\* the handler of POST /admin/login at time t; failAt names the query that
\* throws (0: none, 1: the SELECT, 2: the UPDATE of last_login)
LoginHandler(username, password, failAt, t, table) ==
    IF username = "" \/ password = ""
    THEN [res |-> Json(400, "Username and password required"), table |-> table]
    ELSE IF failAt = 1
    THEN [res |-> Json(500, "Server error"), table |-> table]
    ELSE IF ActiveUsers(username, table) = << >>
    THEN [res |-> UnknownUserResponse, table |-> table]
    ELSE IF ~bcryptCompare(password, table[username].password_hash)
    THEN [res |-> WrongPasswordResponse, table |-> table]
    ELSE IF failAt = 2
    THEN [res |-> Json(500, "Server error"), table |-> table]
    ELSE [res |-> [NoRes EXCEPT
                     !.status = 200,
                     !.token = <<jwtSign(AdminPayload(table[username], username),
                                         JWT_SECRET, AdminTtlSeconds, t)>>],
          table |-> [table EXCEPT ![username].last_login = <<t>>]]

\* POST /admin/login
AdminLoginFrom(usernames, passwords, fails) ==
    \E u \in usernames, p \in passwords, failAt \in fails :
      \E out \in {LoginHandler(u, p, failAt, now, admin_users)} :
        /\ req' = [NoReq EXCEPT !.route = "POST /admin/login", !.host = HostValue,
                                !.username = u, !.password = p]
        /\ res' = [out.res EXCEPT !.handlerRan = TRUE]
        /\ admin_users' = out.table
        /\ adminToken' = IF out.res.token # << >> THEN out.res.token ELSE adminToken
        /\ loginHist' =
               IF out.res.token # << >>
               THEN [wrong |-> 0, before |-> loginHist.wrong]
               ELSE IF /\ u = "admin"
                       /\ p \notin {"", AdminPassword}
                       /\ out.res.status = 401
               THEN [loginHist EXCEPT !.wrong = IF @ < MaxWrongLogins THEN @ + 1 ELSE @]
               ELSE [loginHist EXCEPT !.wrong = 0]
        /\ UNCHANGED <<now, ticks, rateLimitStore, surveys, questions,
                       sessionToken, validInWindow, norm, inflight, legacyDb, boot, passed, kiosk>>

AdminLogin == AdminLoginFrom(Usernames, Passwords, 0..2)

\* a token with the admin payload signed with a key that is not JWT_SECRET
ForgedAdmin(t) ==
    jwtSign(AdminPayload(SeedAdminUsers["admin"], "admin"), "not-the-secret",
            AdminTtlSeconds, t)

\* a string that is no JWT
Garbage == [key |-> "", payload |-> [raw |-> "garbage"], iat |-> 0, exp |-> 0]

\* the Authorization header with 'Bearer ' removed
AuthorizationChoices(t) ==
    { << >>, <<Garbage>>, <<ForgedAdmin(t)>>, adminToken, sessionToken }

BearerAccepted_NoExpiry(token, t) == token.key = JWT_SECRET

\* jwt.verify of the bearer token does not throw
BearerAccepted(token, t) == jwtVerify(token, JWT_SECRET, t)

\* authMiddleware(req, res, next) at time t
authMiddleware(r, t) ==
    IF r.authorization = << >>
    THEN [next |-> FALSE, res |-> Json(401, "No token provided")]
    ELSE IF BearerAccepted(Head(r.authorization), t)
    THEN [next |-> TRUE, res |-> NoRes]
    ELSE [next |-> FALSE, res |-> Json(401, "Invalid token")]

AdminRoutes == {"GET /admin/api/dashboard", "DELETE /admin/api/questions/:id"}

\* the handler of an admin route, entered by next()
AdminHandler(r, dbOk, table, qs) ==
    IF ~dbOk
    THEN [res |-> Json(500, "Database error"), questions |-> qs]
    ELSE IF r.route = "GET /admin/api/dashboard"
    THEN [res |-> [NoRes EXCEPT !.status = 200, !.total = BagCardinality(table)],
          questions |-> qs]
    ELSE IF r.id \notin DOMAIN qs
    THEN [res |-> Json(404, "Question not found"), questions |-> qs]
    ELSE [res |-> [NoRes EXCEPT !.status = 200],
          questions |-> [i \in DOMAIN qs \ {r.id} |-> qs[i]]]

\* a request to an /admin/api route: authMiddleware, then the handler
AdminApiFrom(routes) ==
    \E route \in routes, h \in AuthorizationChoices(now), dbOk \in BOOLEAN,
       id \in QuestionIdInputs :
      \E r \in {[NoReq EXCEPT !.route = route, !.host = HostValue,
                              !.authorization = h,
                              !.id = IF route = "GET /admin/api/dashboard"
                                     THEN 0 ELSE id]} :
        \E auth \in {authMiddleware(r, now)} :
          /\ req' = r
          /\ IF auth.next
             THEN \E out \in {AdminHandler(r, dbOk, surveys, questions)} :
                    /\ res' = [out.res EXCEPT !.handlerRan = TRUE]
                    /\ questions' = out.questions
             ELSE /\ res' = auth.res
                  /\ questions' = questions
          /\ UNCHANGED <<now, ticks, rateLimitStore, surveys, admin_users,
                         sessionToken, adminToken, validInWindow, loginHist, norm, inflight, legacyDb, boot, passed, kiosk>>

-----------------------------------------------------------------------------
(* The server with the normalized schema (src/unnamed/part_002) *)

MaxSubmissions == 2

\* the option_value codes of the seed, in option_order
SentimentValues == <<"sangat_baik", "cukup_baik", "kurang_baik">>

EmojiTypes == <<"positive", "neutral", "negative">>

SeedTexts == <<"KECEPATAN", "KERAMAHAN", "KEJELASAN", "FASILITAS", "KEPUASAN">>

\* table questions after the seed: id -> row
NormSeedQuestions ==
    [i \in 1..5 |->
        [question_text |-> SeedTexts[i], question_order |-> i,
         is_active |-> TRUE, is_required |-> TRUE]]

\* table answer_options after the seed: id -> row (three per question, in the
\* order of the INSERTs)
NormSeedOptions ==
    [o \in 1..15 |->
        [question_id |-> ((o - 1) \div 3) + 1,
         option_value |-> SentimentValues[((o - 1) % 3) + 1],
         option_order |-> ((o - 1) % 3) + 1,
         emoji_type |-> EmojiTypes[((o - 1) % 3) + 1]]]

\* the database after schema and seed; strict: the SQL mode of the server
\* rejects a value that is no member of an ENUM column
SeedDatabase(strict) ==
    [strict |-> strict,
     questions |-> NormSeedQuestions,
     answer_options |-> NormSeedOptions,
     survey_submissions |-> {},
     survey_responses |-> << >>,
     surveys |-> << >>,
     nextSubmissionId |-> 1,
     nextQuestionId |-> 6,
     nextOptionId |-> 16]

\* values of a JSON object: a number or a string
Num(n) == [kind |-> "number", num |-> n, str |-> ""]

Str(x) == [kind |-> "string", num |-> 0, str |-> x]

\* a key is the sequence of its characters
Entry(key, value) == [key |-> key, value |-> value]

IsDigit(c) == c \in {"0", "1", "2", "3", "4", "5", "6", "7", "8", "9"}

DigitValue(c) ==
    CASE c = "0" -> 0 [] c = "1" -> 1 [] c = "2" -> 2 [] c = "3" -> 3
      [] c = "4" -> 4 [] c = "5" -> 5 [] c = "6" -> 6 [] c = "7" -> 7
      [] c = "8" -> 8 [] c = "9" -> 9

\* String.prototype.replace('q', ''): the first 'q' is removed
ReplaceQ(key) ==
    IF \E i \in 1..Len(key) : key[i] = "q"
    THEN LET i == CHOOSE i \in 1..Len(key) :
                    key[i] = "q" /\ \A j \in 1..(i - 1) : key[j] # "q"
         IN  SubSeq(key, 1, i - 1) \o SubSeq(key, i + 1, Len(key))
    ELSE key

NaN == -1

RECURSIVE ParseDigits(_, _)
\* the number spelled by the leading digits of s, after acc
ParseDigits(s, acc) ==
    IF s = << >> \/ ~IsDigit(Head(s)) THEN acc
    ELSE ParseDigits(Tail(s), 10 * acc + DigitValue(Head(s)))

\* parseInt(s): the leading digits, NaN when there is none
ParseInt(s) == IF s = << >> \/ ~IsDigit(Head(s)) THEN NaN ELSE ParseDigits(s, 0)

\* JavaScript truthiness of a value
Truthy(v) == IF v.kind = "number" THEN v.num # 0 ELSE v.str # ""

\* req.body.answers || req.body.questions
Undefined == [kind |-> "undefined", entries |-> << >>]

NotMapping == [kind |-> "string", entries |-> << >>]

Mapping(entries) == [kind |-> "object", entries |-> entries]

\* obj[key]: the value under the key, << >> when undefined
Lookup(entries, key) ==
    IF \E i \in 1..Len(entries) : entries[i].key = key
    THEN <<entries[CHOOSE i \in 1..Len(entries) : entries[i].key = key].value>>
    ELSE << >>

\* SELECT id FROM answer_options WHERE question_id = ? AND option_value = ?
OptionRows(db, questionId, value) ==
    {o \in DOMAIN db.answer_options :
        /\ db.answer_options[o].question_id = questionId
        /\ db.answer_options[o].option_value = value}

\* optionId of one entry of the payload (0: undefined)
ResolveOption(db, questionId, value) ==
    IF value.kind = "number" THEN value.num
    ELSE LET rows == OptionRows(db, questionId, value.str)
         IN  IF rows # {} THEN CHOOSE o \in rows : \A x \in rows : o <= x ELSE 0

\* the foreign keys of survey_responses hold for the row
ForeignKeysHold(db, row) ==
    /\ row.submission_id \in db.survey_submissions
    /\ row.question_id \in DOMAIN db.questions
    /\ row.option_id \in DOMAIN db.answer_options

RECURSIVE ResponseLoop(_, _, _, _)
\* the for loop over Object.entries(surveyAnswers): the database after it and
\* whether a query threw; failFirst: the next INSERT of a response throws
ResponseLoop(entries, submissionId, db, failFirst) ==
    IF entries = << >> THEN [threw |-> FALSE, db |-> db]
    ELSE LET e == Head(entries)
             questionId == ParseInt(ReplaceQ(e.key))
             optionId == IF questionId = NaN THEN 0
                         ELSE ResolveOption(db, questionId, e.value)
             row == [submission_id |-> submissionId, question_id |-> questionId,
                     option_id |-> optionId]
         IN  IF questionId = NaN \/ optionId = 0
             THEN ResponseLoop(Tail(entries), submissionId, db, failFirst)
             ELSE IF failFirst \/ ~ForeignKeysHold(db, row)
             THEN [threw |-> TRUE, db |-> db]
             ELSE ResponseLoop(Tail(entries), submissionId,
                               [db EXCEPT !.survey_responses = Append(@, row)],
                               FALSE)

\* surveyAnswers.qN || surveyAnswers['N'] || null
LegacyAnswer(entries, n) ==
    LET a == Lookup(entries, <<"q", n>>)
        b == Lookup(entries, <<n>>)
    IN  IF a # << >> /\ Truthy(Head(a)) THEN a
        ELSE IF b # << >> /\ Truthy(Head(b)) THEN b
        ELSE << >>

\* what an ENUM('sangat_baik','cukup_baik','kurang_baik') NULL column stores
\* for a parameter: NULL, a member, the member with that index, or (not in
\* strict mode) the empty error value; "error" when the INSERT is refused
EnumStored(strict, v) ==
    IF v = << >> THEN "NULL"
    ELSE IF Head(v).kind = "string" /\ \E i \in 1..3 : SentimentValues[i] = Head(v).str
    THEN Head(v).str
    ELSE IF Head(v).kind = "number" /\ Head(v).num \in 1..3
    THEN SentimentValues[Head(v).num]
    ELSE IF strict THEN "error" ELSE ""

LegacyRow(strict, entries) ==
    [q1_kecepatan |-> EnumStored(strict, LegacyAnswer(entries, "1")),
     q2_keramahan |-> EnumStored(strict, LegacyAnswer(entries, "2")),
     q3_kejelasan |-> EnumStored(strict, LegacyAnswer(entries, "3")),
     q4_fasilitas |-> EnumStored(strict, LegacyAnswer(entries, "4")),
     q5_kepuasan |-> EnumStored(strict, LegacyAnswer(entries, "5"))]

LegacyRefused(row) ==
    "error" \in {row.q1_kecepatan, row.q2_keramahan, row.q3_kejelasan,
                 row.q4_fasilitas, row.q5_kepuasan}

Rollback_KeepsWrites(before, during) == during

\* connection.rollback(): the tables as they were at beginTransaction; the
\* AUTO_INCREMENT counter is not part of the transaction
Rollback(before, during) ==
    [before EXCEPT !.nextSubmissionId = during.nextSubmissionId]

SaveFailed(db) == [res |-> Json(500, "Failed to save survey"), db |-> db]

Faults == {"none", "header", "response", "legacy", "commit"}

\* the message of the error object the mysql2 driver throws
DriverMessage == "connect ECONNREFUSED 172.18.0.2:3306"

\* the handler has thrown without sending a response
Uncaught == [NoRes EXCEPT !.error = DriverMessage]

\* failures outside the try block and inside the catch block:
\* pool.getConnection() rejects; the first INSERT fails and then
\* connection.rollback() rejects (the server drops the open transaction
\* with the connection)
UnguardedFaults == {"connection", "rollback"}

\* what the client gets when the promise of an async handler is rejected:
\* express 4 ignores the promise and no response is sent (status 0); express 5
\* passes the error to its default handler, which answers 500 with the stack
\* of the error or, with NODE_ENV=production, with the status text
AtBoundary(response) ==
    IF response # Uncaught THEN {response}
    ELSE {NoRes, Json(500, DriverMessage), Json(500, "Internal Server Error")}

\* the handler of POST /api/survey; fault names the statement of the
\* transaction that the database fails ("response": the first INSERT of a
\* response)
NormSubmitHandler(body, fault, db) ==
    IF body.kind # "object"
    THEN [res |-> Json(400, "Invalid survey data"), db |-> db]
    ELSE IF fault = "connection"
    THEN [res |-> Uncaught, db |-> db]
    ELSE IF fault = "rollback"
    THEN [res |-> Uncaught, db |-> Rollback(db, db)]
    ELSE IF fault = "header"
    THEN SaveFailed(Rollback(db, db))
    ELSE LET submissionId == db.nextSubmissionId
             db1 == [db EXCEPT !.survey_submissions = @ \cup {submissionId},
                               !.nextSubmissionId = @ + 1]
             loop == ResponseLoop(body.entries, submissionId, db1,
                                  fault = "response")
             legacy == LegacyRow(db.strict, body.entries)
             db3 == [loop.db EXCEPT !.surveys = Append(@, legacy)]
         IN  IF loop.threw
             THEN SaveFailed(Rollback(db, loop.db))
             ELSE IF fault = "legacy" \/ LegacyRefused(legacy)
             THEN SaveFailed(Rollback(db, loop.db))
             ELSE IF fault = "commit"
             THEN SaveFailed(Rollback(db, db3))
             ELSE [res |-> [NoRes EXCEPT !.status = 201, !.id = submissionId],
                   db |-> db3]

LegacyColumns ==
    <<"q1_kecepatan", "q2_keramahan", "q3_kejelasan", "q4_fasilitas", "q5_kepuasan">>

\* SUM(CASE WHEN <column> = '<value>' THEN 1 ELSE 0 END) FROM surveys
SentimentCount(rows, n, value) ==
    Cardinality({i \in 1..Len(rows) : rows[i][LegacyColumns[n]] = value})

\* the numbers of GET /admin/api/dashboard and of the monthly report for the
\* month of the submissions: total and, per legacy column, the sentiment counts
dashboardSummary(rows) ==
    [total |-> Len(rows),
     counts |-> [n \in 1..5 |->
                   [v \in {"sangat_baik", "cukup_baik", "kurang_baik"} |->
                       SentimentCount(rows, n, v)]]]

\* payloads of the kiosk and of other clients
KioskAnswers ==
    Mapping(<<Entry(<<"q", "1">>, Str("sangat_baik")),
              Entry(<<"q", "2">>, Str("cukup_baik")),
              Entry(<<"q", "3">>, Str("kurang_baik")),
              Entry(<<"q", "4">>, Str("sangat_baik")),
              Entry(<<"q", "5">>, Str("sangat_baik"))>>)

\* option ids as values: option 2 is 'cukup_baik' of question 1, option 13 is
\* 'sangat_baik' of question 5
OptionIdAnswers ==
    Mapping(<<Entry(<<"1">>, Num(2)), Entry(<<"q", "5">>, Num(13))>>)

\* the same question under both forms of its key (integer keys come first
\* in Object.entries)
BothFormsAnswers ==
    Mapping(<<Entry(<<"1">>, Str("cukup_baik")),
              Entry(<<"q", "1">>, Str("sangat_baik"))>>)

\* a key that is no question key, one that names no question, a value code
\* that is no option of the question
StrayAnswers ==
    Mapping(<<Entry(<<"9">>, Str("sangat_baik")),
              Entry(<<"n", "o", "t", "e">>, Str("hello")),
              Entry(<<"q", "1">>, Str("sangat_baik")),
              Entry(<<"q", "2">>, Str("luar_biasa"))>>)

\* an option id under a key that names no question
StrayIdAnswers ==
    Mapping(<<Entry(<<"q", "1">>, Str("kurang_baik")),
              Entry(<<"q", "9">>, Num(1))>>)

EmptyAnswers == Mapping(<< >>)

NormBodies ==
    {Undefined, NotMapping, EmptyAnswers, KioskAnswers, OptionIdAnswers,
     BothFormsAnswers, StrayAnswers, StrayIdAnswers}

\* POST /api/survey of the server with the normalized schema
NormSubmitFrom(bodies, faults) ==
    \E body \in bodies, fault \in faults :
      \E out \in {NormSubmitHandler(body, fault, norm)} :
        /\ norm.nextSubmissionId <= MaxSubmissions
        /\ req' = [NoReq EXCEPT !.route = "POST /api/survey", !.host = HostValue,
                                !.body = body, !.fault = fault]
        /\ \E sent \in AtBoundary(out.res) :
             res' = [sent EXCEPT !.handlerRan = TRUE]
        /\ norm' = out.db
        /\ UNCHANGED <<now, ticks, rateLimitStore, surveys, admin_users,
                       questions, sessionToken, adminToken, validInWindow,
                       loginHist, inflight, legacyDb, boot, passed, kiosk>>

NormSubmit == NormSubmitFrom(NormBodies, Faults)

\* GET /health of the server with the gate
HealthHandler(dbOk) ==
    IF dbOk THEN [NoRes EXCEPT !.status = 200, !.message = "healthy"]
    ELSE [Json(503, DriverMessage) EXCEPT !.message = "unhealthy"]

Health ==
    \E dbOk \in BOOLEAN :
      /\ req' = [NoReq EXCEPT !.route = "GET /health", !.host = HostValue]
      /\ res' = [HealthHandler(dbOk) EXCEPT !.handlerRan = TRUE]
      /\ UNCHANGED <<now, ticks, rateLimitStore, surveys, admin_users,
                     questions, sessionToken, adminToken, validInWindow,
                     loginHist, norm, inflight, legacyDb, boot, passed, kiosk>>

-----------------------------------------------------------------------------
(* Routing of the admin requests *)

\* a registered route: method, path pattern below /admin/api, handler
Route(method, pattern, handler) ==
    [method |-> method, pattern |-> pattern, handler |-> handler]

\* the path matches the pattern: a segment ':id' matches any segment
Matches(route, method, path) ==
    /\ route.method = method
    /\ Len(route.pattern) = Len(path)
    /\ \A i \in 1..Len(path) : route.pattern[i] = ":id" \/ route.pattern[i] = path[i]

\* express: the first registered route that matches handles the request
\* ("none": no route)
Router(routes, method, path) ==
    IF \E i \in 1..Len(routes) : Matches(routes[i], method, path)
    THEN routes[CHOOSE i \in 1..Len(routes) :
                   /\ Matches(routes[i], method, path)
                   /\ \A j \in 1..(i - 1) : ~Matches(routes[j], method, path)].handler
    ELSE "none"

\* the value MySQL compares an INT column with, for the parameter req.params.id
\* (0 for a string that does not start with a digit; no row has id 0)
IdParam(segment) == IF IsDigit(segment) THEN DigitValue(segment) ELSE 0

\* req.body of an admin request: every field << >> (undefined) or <<value>>
NoBody ==
    [question_text |-> << >>, question_subtitle |-> << >>,
     option_positive |-> << >>, option_neutral |-> << >>,
     option_negative |-> << >>, is_active |-> << >>, is_required |-> << >>,
     order |-> << >>]

AdminRequest(method, path, body) ==
    [NoReq EXCEPT !.method = method, !.path = path, !.body = body,
                  !.host = HostValue]

\* the greatest value of a column (0 for an empty table: MAX is NULL, || 0)
MaxOf(table, column) ==
    IF DOMAIN table = {} THEN 0
    ELSE CHOOSE m \in {table[i][column] : i \in DOMAIN table} :
             \A i \in DOMAIN table : table[i][column] <= m

\* ORDER BY column ASC over the rows ids of the table; rows with equal values
\* come in the order of their ids
RECURSIVE OrderBy(_, _, _)
OrderBy(table, ids, column) ==
    IF ids = {} THEN << >>
    ELSE LET first == CHOOSE i \in ids :
                          \A j \in ids :
                              \/ table[i][column] < table[j][column]
                              \/ table[i][column] = table[j][column] /\ i <= j
         IN  <<first>> \o OrderBy(table, ids \ {first}, column)

-----------------------------------------------------------------------------
(* Question catalog of the server with the normalized schema *)

MaxCreates == 2

MaxInflight == 2

NormRoutes ==
    <<Route("GET", <<"questions">>, "GET /admin/api/questions"),
      Route("POST", <<"questions">>, "POST /admin/api/questions"),
      Route("PUT", <<"questions", ":id">>, "PUT /admin/api/questions/:id"),
      Route("DELETE", <<"questions", ":id">>, "DELETE /admin/api/questions/:id"),
      Route("PUT", <<"questions", "reorder">>, "PUT /admin/api/questions/reorder")>>

\* GET /api/questions: the active questions in question_order
NormListActive(db) ==
    OrderBy(db.questions, {i \in DOMAIN db.questions : db.questions[i].is_active},
            "question_order")

Ok(message) == [NoRes EXCEPT !.status = 200, !.message = message]

DatabaseError == Json(500, "Database error")

\* row of table table without the rows ids
Without(table, ids) == [i \in DOMAIN table \ ids |-> table[i]]

\* SELECT COUNT(*) FROM survey_responses WHERE question_id = ?
ResponseCount_Zero(db, id) == 0

ResponseCount(db, id) ==
    Cardinality({k \in 1..Len(db.survey_responses) :
                    db.survey_responses[k].question_id = id})

\* DELETE FROM questions WHERE id = ?, with the ON DELETE CASCADE of
\* answer_options and survey_responses
DeleteQuestion(db, id) ==
    LET gone == {o \in DOMAIN db.answer_options :
                    db.answer_options[o].question_id = id}
        kept(row) == row.question_id # id /\ row.option_id \notin gone
    IN  [db EXCEPT !.questions = Without(@, {id}),
                   !.answer_options = Without(@, gone),
                   !.survey_responses = SelectSeq(@, kept)]

\* the handler of DELETE /admin/api/questions/:id
NormDeleteHandler(r, dbOk, db) ==
    LET id == IdParam(r.path[2])
    IN  IF ~dbOk THEN [res |-> DatabaseError, db |-> db]
        ELSE IF ResponseCount(db, id) > 0
        THEN [res |-> Ok("Question deactivated (has responses)"),
              db |-> IF id \in DOMAIN db.questions
                     THEN [db EXCEPT !.questions[id].is_active = FALSE] ELSE db]
        ELSE [res |-> Ok("Question deleted"), db |-> DeleteQuestion(db, id)]

\* the column a field of the body sets, when it is present
Assigned(old, field) == IF field = << >> THEN old ELSE Head(field)

\* the handler of PUT /admin/api/questions/:id
NormUpdateHandler(r, dbOk, db) ==
    LET id == IdParam(r.path[2])
        b == r.body
    IN  IF b.question_text = << >> /\ b.is_active = << >> /\ b.is_required = << >>
        THEN [res |-> Json(400, "No updates provided"), db |-> db]
        ELSE IF ~dbOk THEN [res |-> DatabaseError, db |-> db]
        ELSE [res |-> Ok("Question updated"),
              db |-> IF id \in DOMAIN db.questions
                     THEN [db EXCEPT
                             !.questions[id].question_text = Assigned(@, b.question_text),
                             !.questions[id].is_active = Assigned(@, b.is_active),
                             !.questions[id].is_required = Assigned(@, b.is_required)]
                     ELSE db]

RECURSIVE ApplyOrder(_, _, _)
\* for (const item of order) UPDATE questions SET <column> = item.order
\* WHERE id = item.id
ApplyOrder(table, order, column) ==
    IF order = << >> THEN table
    ELSE ApplyOrder(IF Head(order).id \in DOMAIN table
                    THEN [table EXCEPT ![Head(order).id][column] = Head(order).order]
                    ELSE table,
                    Tail(order), column)

\* the handler of PUT /admin/api/questions/reorder
NormReorderHandler(r, dbOk, db) ==
    IF r.body.order = << >>
    THEN [res |-> Json(400, "Invalid order data"), db |-> db]
    ELSE IF ~dbOk THEN [res |-> DatabaseError, db |-> db]
    ELSE [res |-> Ok("Questions reordered"),
          db |-> [db EXCEPT !.questions =
                     ApplyOrder(@, Head(r.body.order), "question_order")]]

\* the handler of GET /admin/api/questions
NormListHandler(r, dbOk, db) ==
    IF ~dbOk THEN [res |-> DatabaseError, db |-> db]
    ELSE [res |-> [NoRes EXCEPT !.status = 200,
                                !.list = OrderBy(db.questions, DOMAIN db.questions,
                                                 "question_order")],
          db |-> db]

\* requests of the question editor
DeleteFirst == AdminRequest("DELETE", <<"questions", "1">>, NoBody)

DeleteLast == AdminRequest("DELETE", <<"questions", "5">>, NoBody)

\* an edit of the text that does not send the active flag
EditText ==
    AdminRequest("PUT", <<"questions", "2">>, [NoBody EXCEPT !.question_text = <<"EDITED">>])

Deactivate ==
    AdminRequest("PUT", <<"questions", "2">>, [NoBody EXCEPT !.is_active = <<FALSE>>])

EmptyEdit == AdminRequest("PUT", <<"questions", "2">>, NoBody)

\* the first two questions swapped
SwapOrder == <<[id |-> 1, order |-> 2], [id |-> 2, order |-> 1]>>

Reorder ==
    AdminRequest("PUT", <<"questions", "reorder">>, [NoBody EXCEPT !.order = <<SwapOrder>>])

ListAll == AdminRequest("GET", <<"questions">>, NoBody)

Create ==
    AdminRequest("POST", <<"questions">>, [NoBody EXCEPT !.question_text = <<"BARU">>])

CreateNoText == AdminRequest("POST", <<"questions">>, NoBody)

NormAdminRequests ==
    {DeleteFirst, DeleteLast, EditText, Deactivate, EmptyEdit, Reorder, ListAll}

\* a request of the question editor: authMiddleware, then the handler of the
\* first route that matches
NormAdmin ==
    \E q \in NormAdminRequests, h \in {<< >>, adminToken}, dbOk \in BOOLEAN :
      \E r \in {[q EXCEPT !.authorization = h,
                          !.route = Router(NormRoutes, q.method, q.path)]} :
        \E auth \in {authMiddleware(r, now)} :
          /\ req' = r
          /\ IF auth.next
             THEN \E out \in {CASE r.route = "GET /admin/api/questions" -> NormListHandler(r, dbOk, norm)
                                [] r.route = "PUT /admin/api/questions/:id" -> NormUpdateHandler(r, dbOk, norm)
                                [] r.route = "DELETE /admin/api/questions/:id" -> NormDeleteHandler(r, dbOk, norm)
                                [] r.route = "PUT /admin/api/questions/reorder" -> NormReorderHandler(r, dbOk, norm)} :
                    /\ res' = [out.res EXCEPT !.handlerRan = TRUE]
                    /\ norm' = out.db
             ELSE /\ res' = auth.res
                  /\ norm' = norm
          /\ UNCHANGED <<now, ticks, rateLimitStore, surveys, admin_users,
                         questions, sessionToken, adminToken, validInWindow,
                         loginHist, inflight, legacyDb, boot, passed, kiosk>>

-----------------------------------------------------------------------------
(* Question catalog of the server with the gate (src/unnamed/part_001) *)

LegacyRoutes ==
    <<Route("GET", <<"questions">>, "GET /admin/api/questions"),
      Route("GET", <<"questions", ":id">>, "GET /admin/api/questions/:id"),
      Route("PUT", <<"questions", ":id">>, "PUT /admin/api/questions/:id"),
      Route("POST", <<"questions", "reset">>, "POST /admin/api/questions/reset"),
      Route("POST", <<"questions">>, "POST /admin/api/questions"),
      Route("DELETE", <<"questions", ":id">>, "DELETE /admin/api/questions/:id"),
      Route("PUT", <<"questions", "reorder">>, "PUT /admin/api/questions/reorder")>>

\* GET /api/questions: the active questions in display_order
LegacyListActive(qs) ==
    OrderBy(qs, {i \in DOMAIN qs : qs[i].is_active = 1}, "display_order")

\* a parameter of pool.query: undefined is sent as NULL
Param(field) == IF field = << >> THEN "NULL" ELSE Head(field)

\* is_active ? 1 : 0
ActiveFlag(old, field) == IF field # << >> /\ Head(field) THEN 1 ELSE 0

\* the handler of PUT /admin/api/questions/:id: every column is assigned;
\* question_text is NOT NULL (refused in strict mode, else stored as ''), and
\* in strict mode an id that is no number is refused in the comparison
LegacyUpdateHandler(r, dbOk, db, qs) ==
    LET id == IdParam(r.path[2])
        b == r.body
    IN  IF ~dbOk THEN [res |-> DatabaseError, questions |-> qs]
        ELSE IF db.strict /\ ~IsDigit(r.path[2])
        THEN [res |-> DatabaseError, questions |-> qs]
        ELSE IF id \notin DOMAIN qs
        THEN [res |-> Ok("Question updated"), questions |-> qs]
        ELSE IF db.strict /\ b.question_text = << >>
        THEN [res |-> DatabaseError, questions |-> qs]
        ELSE [res |-> Ok("Question updated"),
              questions |->
                [qs EXCEPT
                   ![id].question_text =
                       IF b.question_text = << >> THEN "" ELSE Head(b.question_text),
                   ![id].question_subtitle = Param(b.question_subtitle),
                   ![id].option_positive = Param(b.option_positive),
                   ![id].option_neutral = Param(b.option_neutral),
                   ![id].option_negative = Param(b.option_negative),
                   ![id].is_active = ActiveFlag(@, b.is_active)]]

\* the rows defaults[n] is written to: WHERE question_key = 'q<n>'
RowsWithKey(qs, n) == {i \in DOMAIN qs : qs[i].question_key = <<"q", n>>}

\* UPDATE questions SET question_text, option_positive, option_neutral,
\* option_negative, is_active = 1 (one row of defaults)
ResetRow(row, n) ==
    [row EXCEPT !.question_text = DefaultTexts[n],
                !.option_positive = DefaultPositive[n],
                !.option_neutral = DefaultNeutral[n],
                !.option_negative = DefaultNegative[n],
                !.is_active = 1]

\* the handler of POST /admin/api/questions/reset
LegacyResetHandler(r, dbOk, qs) ==
    IF ~dbOk THEN [res |-> DatabaseError, questions |-> qs]
    ELSE [res |-> Ok("Questions reset to defaults"),
          questions |->
            [i \in DOMAIN qs |->
               IF \E n \in 1..5 : i \in RowsWithKey(qs, n)
               THEN ResetRow(qs[i], CHOOSE n \in 1..5 : i \in RowsWithKey(qs, n))
               ELSE qs[i]]]

\* the handler of DELETE /admin/api/questions/:id
LegacyDeleteHandler(r, dbOk, qs) ==
    LET id == IdParam(r.path[2])
    IN  IF ~dbOk THEN [res |-> DatabaseError, questions |-> qs]
        ELSE IF id \notin DOMAIN qs
        THEN [res |-> Json(404, "Question not found"), questions |-> qs]
        ELSE [res |-> Ok("Question deleted"), questions |-> Without(qs, {id})]

\* the handler of PUT /admin/api/questions/reorder: table questions of this
\* server has no column question_order, so the first UPDATE throws
LegacyReorderHandler(r, dbOk, qs) ==
    IF r.body.order = << >>
    THEN [res |-> Json(400, "Order must be an array"), questions |-> qs]
    ELSE IF Head(r.body.order) = << >>
    THEN [res |-> Ok("Questions reordered"), questions |-> qs]
    ELSE [res |-> DatabaseError, questions |-> qs]

\* the handler of GET /admin/api/questions
LegacyListHandler(r, dbOk, qs) ==
    IF ~dbOk THEN [res |-> DatabaseError, questions |-> qs]
    ELSE [res |-> [NoRes EXCEPT !.status = 200,
                                !.list = OrderBy(qs, DOMAIN qs, "display_order")],
          questions |-> qs]

\* requests of the question editor of this server
AllFields(text, active) ==
    [NoBody EXCEPT !.question_text = <<text>>,
                   !.question_subtitle = <<DefaultSubtitle>>,
                   !.option_positive = <<"BAGUS">>,
                   !.option_neutral = <<"BIASA">>,
                   !.option_negative = <<"BURUK">>,
                   !.is_active = active]

\* an edit of text and labels that does not send the active flag
EditNoFlag == AdminRequest("PUT", <<"questions", "2">>, AllFields("EDITED", << >>))

EditAll == AdminRequest("PUT", <<"questions", "2">>, AllFields("EDITED", <<TRUE>>))

DeactivateThird ==
    AdminRequest("PUT", <<"questions", "3">>, AllFields("EDITED", <<FALSE>>))

ResetDefaults == AdminRequest("POST", <<"questions", "reset">>, NoBody)

LegacyAdminRequests ==
    {EditNoFlag, EditAll, EditText, DeactivateThird, ResetDefaults, DeleteLast,
     Reorder, ListAll}

\* a request of the question editor: authMiddleware, then the handler of the
\* first route that matches
LegacyAdminFrom(requests) ==
    \E q \in requests, h \in {<< >>, adminToken}, dbOk \in BOOLEAN :
      \E r \in {[q EXCEPT !.authorization = h,
                          !.route = Router(LegacyRoutes, q.method, q.path)]} :
        \E auth \in {authMiddleware(r, now)} :
          /\ req' = r
          /\ IF auth.next
             THEN \E out \in
                    {CASE r.route = "GET /admin/api/questions" ->
                            LegacyListHandler(r, dbOk, questions)
                       [] r.route = "PUT /admin/api/questions/:id" ->
                            LegacyUpdateHandler(r, dbOk, legacyDb, questions)
                       [] r.route = "POST /admin/api/questions/reset" ->
                            LegacyResetHandler(r, dbOk, questions)
                       [] r.route = "DELETE /admin/api/questions/:id" ->
                            LegacyDeleteHandler(r, dbOk, questions)
                       [] r.route = "PUT /admin/api/questions/reorder" ->
                            LegacyReorderHandler(r, dbOk, questions)} :
                    /\ res' = [out.res EXCEPT !.handlerRan = TRUE]
                    /\ questions' = out.questions
             ELSE /\ res' = auth.res
                  /\ questions' = questions
          /\ UNCHANGED <<now, ticks, rateLimitStore, surveys, admin_users,
                         sessionToken, adminToken, validInWindow, loginHist,
                         norm, inflight, legacyDb, boot, passed, kiosk>>

LegacyAdmin == LegacyAdminFrom(LegacyAdminRequests)

\* CAST(SUBSTRING(question_key, 2) AS UNSIGNED)
KeyNumber(key) == key[2]

\* SELECT MAX(CAST(SUBSTRING(question_key, 2) AS UNSIGNED)) FROM questions
MaxKeyNumber(qs) ==
    IF DOMAIN qs = {} THEN 0
    ELSE CHOOSE m \in {KeyNumber(qs[i].question_key) : i \in DOMAIN qs} :
             \A i \in DOMAIN qs : KeyNumber(qs[i].question_key) <= m

\* POST /admin/api/questions, up to the INSERT: authMiddleware, the check of
\* the body and the two SELECT MAX; the handler then waits for the INSERT
LegacyCreateBegin ==
    \E q \in {Create, CreateNoText}, h \in {<< >>, adminToken} :
      \E r \in {[q EXCEPT !.authorization = h,
                          !.route = Router(LegacyRoutes, q.method, q.path)]} :
        \E auth \in {authMiddleware(r, now)} :
          /\ Len(inflight) < MaxInflight
          /\ legacyDb.nextQuestionId + Len(inflight) <= 5 + MaxCreates
          /\ req' = r
          /\ IF ~auth.next
             THEN res' = auth.res /\ inflight' = inflight
             ELSE IF r.body.question_text = << >>
             THEN /\ res' = [Json(400, "Question text is required")
                               EXCEPT !.handlerRan = TRUE]
                  /\ inflight' = inflight
             ELSE /\ res' = [NoRes EXCEPT !.handlerRan = TRUE]
                  /\ inflight' = Append(inflight,
                                        [r |-> r,
                                         nextNum |-> MaxKeyNumber(questions) + 1,
                                         nextOrder |-> MaxOf(questions, "display_order") + 1])
          /\ UNCHANGED <<now, ticks, rateLimitStore, surveys, admin_users,
                         questions, sessionToken, adminToken, validInWindow,
                         loginHist, norm, legacyDb, boot, passed, kiosk>>

\* the sequence without its k-th element
Remove(seq, k) == SubSeq(seq, 1, k - 1) \o SubSeq(seq, k + 1, Len(seq))

\* table questions has UNIQUE (question_key)
KeyTaken(qs, key) == \E i \in DOMAIN qs : qs[i].question_key = key

\* option_x || default
OrDefault(field, default) ==
    IF field = << >> \/ Head(field) = "" THEN default ELSE Head(field)

\* POST /admin/api/questions, from the INSERT on: the row is stored and the
\* answer sent, or the INSERT is refused and the answer is 500
LegacyCreateFinish ==
    \E k \in 1..Len(inflight), dbOk \in BOOLEAN :
      LET h == inflight[k]
          key == <<"q", h.nextNum>>
          id == legacyDb.nextQuestionId
          row == [question_key |-> key,
                  question_text |-> Head(h.r.body.question_text),
                  question_subtitle |-> DefaultSubtitle,
                  option_positive |-> OrDefault(h.r.body.option_positive, "SANGAT BAIK"),
                  option_neutral |-> OrDefault(h.r.body.option_neutral, "CUKUP BAIK"),
                  option_negative |-> OrDefault(h.r.body.option_negative, "KURANG BAIK"),
                  display_order |-> h.nextOrder,
                  is_active |-> IF h.r.body.is_active = <<FALSE>> THEN 0 ELSE 1]
      IN  /\ h.r.route = "POST /admin/api/questions"
          /\ "nextNum" \in DOMAIN h
          /\ inflight' = Remove(inflight, k)
          /\ req' = h.r
          /\ IF ~dbOk \/ KeyTaken(questions, key)
             THEN /\ res' = [DatabaseError EXCEPT !.handlerRan = TRUE]
                  /\ questions' = questions
                  /\ legacyDb' = IF dbOk
                                 THEN [legacyDb EXCEPT !.nextQuestionId = @ + 1]
                                 ELSE legacyDb
             ELSE /\ res' = [Ok("Question created") EXCEPT
                               !.handlerRan = TRUE, !.id = id]
                  /\ questions' = MapSet(questions, id, row)
                  /\ legacyDb' = [legacyDb EXCEPT !.nextQuestionId = @ + 1]
          /\ UNCHANGED <<now, ticks, rateLimitStore, surveys, admin_users,
                         sessionToken, adminToken, validInWindow, loginHist, norm, boot, passed, kiosk>>

-----------------------------------------------------------------------------
(* Reports of the server with the gate (src/unnamed/part_001) *)

\* SUM(CASE WHEN <column> = '<value>' THEN 1 ELSE 0 END) over table surveys
ColumnCount(rows, n, value) ==
    BagCardinality([row \in {x \in DOMAIN rows : x[LegacyColumns[n]] = value}
                      |-> rows[row]])

\* data[`${prefix}_${value}`] || 0: the row of sums has the names q1_.. to q5_
Breakdown(rows, prefix, value) ==
    IF prefix[2] \in 1..5 THEN ColumnCount(rows, prefix[2], value) ELSE 0

\* the three sentiment counts read under a prefix
StatsUnder(rows, prefix) ==
    [v \in {"sangat_baik", "cukup_baik", "kurang_baik"} |-> Breakdown(rows, prefix, v)]

\* questions.map((q, index) => ...) with prefix = `q${index + 1}`
StatsByIndex(rows, qs) ==
    LET active == LegacyListActive(qs)
    IN  [k \in 1..Len(active) |->
           [id |-> active[k], key |-> qs[active[k]].question_key,
            stats |-> StatsUnder(rows, <<"q", k>>)]]

\* questionsList.forEach(q => data[`${q.question_key}_...`])
StatsByKey(rows, qs) ==
    LET active == LegacyListActive(qs)
    IN  [k \in 1..Len(active) |->
           [id |-> active[k], key |-> qs[active[k]].question_key,
            stats |-> StatsUnder(rows, qs[active[k]].question_key)]]

\* the summary cards of the PDF: lastQPrefix = `q${questionsList.length}`
SummaryCards(rows, qs) == <<StatsUnder(rows, <<"q", Len(LegacyListActive(qs))>>)>>

ReportRoutes ==
    {"GET /admin/api/dashboard", "GET /admin/api/reports/monthly",
     "GET /admin/api/reports/pdf"}

\* the handlers of the dashboard, of the monthly report and of the PDF export,
\* asked for the month of the submissions
ReportHandler(route, dbOk, rows, qs) ==
    IF ~dbOk THEN DatabaseError
    ELSE CASE route = "GET /admin/api/dashboard" ->
                [NoRes EXCEPT !.status = 200, !.total = BagCardinality(rows),
                              !.questionsList = StatsByIndex(rows, qs)]
           [] route = "GET /admin/api/reports/monthly" ->
                [NoRes EXCEPT !.status = 200, !.total = BagCardinality(rows),
                              !.questionsList = StatsByIndex(rows, qs)]
           [] route = "GET /admin/api/reports/pdf" ->
                [NoRes EXCEPT !.status = 200, !.total = BagCardinality(rows),
                              !.questionsList = StatsByKey(rows, qs),
                              !.cards = SummaryCards(rows, qs)]

\* a report is asked for: authMiddleware, then the handler
Reports ==
    \E route \in ReportRoutes, h \in {<< >>, adminToken}, dbOk \in BOOLEAN :
      \E r \in {[NoReq EXCEPT !.route = route, !.host = HostValue,
                              !.authorization = h]} :
        \E auth \in {authMiddleware(r, now)} :
          /\ req' = r
          /\ res' = IF auth.next
                    THEN [ReportHandler(route, dbOk, surveys, questions)
                            EXCEPT !.handlerRan = TRUE]
                    ELSE auth.res
          /\ UNCHANGED <<now, ticks, rateLimitStore, surveys, admin_users,
                         questions, sessionToken, adminToken, validInWindow,
                         loginHist, norm, inflight, legacyDb, boot, passed, kiosk>>

-----------------------------------------------------------------------------
(* Creating a question in the normalized schema (src/unnamed/part_002) *)

\* POST /admin/api/questions, up to the INSERT: authMiddleware, the check of
\* the body, beginTransaction and SELECT MAX(question_order); the handler
\* then waits for the INSERT
NormCreateBegin ==
    \E q \in {Create, CreateNoText}, h \in {<< >>, adminToken} :
      \E r \in {[q EXCEPT !.authorization = h,
                          !.route = Router(NormRoutes, q.method, q.path)]} :
        \E auth \in {authMiddleware(r, now)} :
          /\ Len(inflight) < MaxInflight
          /\ norm.nextQuestionId + Len(inflight) <= 5 + MaxCreates
          /\ req' = r
          /\ IF ~auth.next
             THEN res' = auth.res /\ inflight' = inflight
             ELSE IF r.body.question_text = << >>
             THEN /\ res' = [Json(400, "Question text is required")
                               EXCEPT !.handlerRan = TRUE]
                  /\ inflight' = inflight
             ELSE /\ res' = [NoRes EXCEPT !.handlerRan = TRUE]
                  /\ inflight' = Append(inflight,
                                        [r |-> r,
                                         nextOrder |-> MaxOf(norm.questions, "question_order") + 1])
          /\ UNCHANGED <<now, ticks, rateLimitStore, surveys, admin_users,
                         questions, sessionToken, adminToken, validInWindow,
                         loginHist, norm, legacyDb, boot, passed, kiosk>>

\* DELETE /admin/api/questions/:id, up to the answer of SELECT COUNT(*):
\* authMiddleware and the count of the responses to the question; the handler
\* then waits for its second statement
NormDeleteBegin ==
    \E q \in {DeleteFirst, DeleteLast}, h \in {<< >>, adminToken}, dbOk \in BOOLEAN :
      \E r \in {[q EXCEPT !.authorization = h,
                          !.route = Router(NormRoutes, q.method, q.path)]} :
        \E auth \in {authMiddleware(r, now)} :
          /\ Len(inflight) < MaxInflight
          /\ req' = r
          /\ IF ~auth.next
             THEN res' = auth.res /\ inflight' = inflight
             ELSE IF ~dbOk
             THEN /\ res' = [DatabaseError EXCEPT !.handlerRan = TRUE]
                  /\ inflight' = inflight
             ELSE /\ res' = [NoRes EXCEPT !.handlerRan = TRUE]
                  /\ inflight' = Append(inflight,
                                        [r |-> r,
                                         count |-> ResponseCount(norm, IdParam(r.path[2]))])
          /\ UNCHANGED <<now, ticks, rateLimitStore, surveys, admin_users,
                         questions, sessionToken, adminToken, validInWindow,
                         loginHist, norm, legacyDb, boot, passed, kiosk>>

\* DELETE /admin/api/questions/:id, from the second statement on: UPDATE when
\* the count was positive, DELETE (with its cascade) when it was zero
NormDeleteFinish ==
    \E k \in 1..Len(inflight), dbOk \in BOOLEAN :
      LET h == inflight[k]
          id == IdParam(h.r.path[2])
      IN  /\ h.r.route = "DELETE /admin/api/questions/:id"
          /\ inflight' = Remove(inflight, k)
          /\ req' = h.r
          /\ IF ~dbOk
             THEN res' = [DatabaseError EXCEPT !.handlerRan = TRUE] /\ norm' = norm
             ELSE IF h.count > 0
             THEN /\ res' = [Ok("Question deactivated (has responses)")
                               EXCEPT !.handlerRan = TRUE]
                  /\ norm' = IF id \in DOMAIN norm.questions
                             THEN [norm EXCEPT !.questions[id].is_active = FALSE]
                             ELSE norm
             ELSE /\ res' = [Ok("Question deleted") EXCEPT !.handlerRan = TRUE]
                  /\ norm' = DeleteQuestion(norm, id)
          /\ UNCHANGED <<now, ticks, rateLimitStore, surveys, admin_users,
                         questions, sessionToken, adminToken, validInWindow,
                         loginHist, legacyDb, boot, passed, kiosk>>

\* the three options a question gets when the request names none
DefaultOptions(questionId) ==
    [k \in 1..3 |-> [question_id |-> questionId,
                     option_value |-> SentimentValues[k],
                     option_order |-> k,
                     emoji_type |-> EmojiTypes[k]]]

\* INSERT INTO answer_options: the rows are added under the next
\* AUTO_INCREMENT ids
InsertOptions(db, rows) ==
    [db EXCEPT !.answer_options =
                   [o \in DOMAIN @ \cup (db.nextOptionId..(db.nextOptionId + Len(rows) - 1)) |->
                      IF o \in DOMAIN @ THEN @[o] ELSE rows[o - db.nextOptionId + 1]],
               !.nextOptionId = @ + Len(rows)]

\* the statements of the transaction that the database may fail
CreateFaults == {"none", "question", "options"}

\* POST /admin/api/questions, from the INSERT on: question and default
\* options are stored and committed, and the answer is 201; or a statement
\* fails, the transaction is rolled back and the answer is 500
NormCreateFinish ==
    \E k \in 1..Len(inflight), fault \in CreateFaults :
      LET h == inflight[k]
          questionId == norm.nextQuestionId
          row == [question_text |-> Head(h.r.body.question_text),
                  question_order |-> h.nextOrder,
                  is_active |-> IF h.r.body.is_active = << >> THEN TRUE
                                ELSE Head(h.r.body.is_active),
                  is_required |-> IF h.r.body.is_required = << >> THEN TRUE
                                  ELSE Head(h.r.body.is_required)]
          inserted == [norm EXCEPT !.questions = MapSet(@, questionId, row),
                                   !.nextQuestionId = @ + 1]
      IN  /\ h.r.route = "POST /admin/api/questions"
          /\ "nextNum" \notin DOMAIN h
          /\ inflight' = Remove(inflight, k)
          /\ req' = h.r
          /\ CASE fault = "none" ->
                    /\ res' = [NoRes EXCEPT !.status = 201, !.id = questionId,
                                            !.message = "Question created",
                                            !.handlerRan = TRUE]
                    /\ norm' = InsertOptions(inserted, DefaultOptions(questionId))
               [] fault = "question" ->
                    /\ res' = [DatabaseError EXCEPT !.handlerRan = TRUE]
                    /\ norm' = norm
               [] fault = "options" ->
                    /\ res' = [DatabaseError EXCEPT !.handlerRan = TRUE]
                    /\ norm' = [norm EXCEPT !.nextQuestionId = @ + 1]
          /\ UNCHANGED <<now, ticks, rateLimitStore, surveys, admin_users,
                         questions, sessionToken, adminToken, validInWindow,
                         loginHist, legacyDb, boot, passed, kiosk>>

-----------------------------------------------------------------------------
(* Submissions whose handlers overlap (src/unnamed/part_001) *)

\* POST /api/survey up to the first await: sessionMiddleware, which runs
\* without an await, then the check of the body; the handler then waits for
\* the INSERT
SurveyBeginFrom(cookies, bodies) ==
    \E c \in cookies, b \in bodies :
      \E r \in {[NoReq EXCEPT !.route = "POST /api/survey",
                              !.xForwardedFor = Direct.xForwardedFor,
                              !.xRealIp = Direct.xRealIp, !.ip = Direct.ip,
                              !.origin = SameSite.origin,
                              !.referer = SameSite.referer,
                              !.host = HostValue, !.cookie = c, !.body = b]} :
        \E gate \in {sessionMiddleware(r, now, rateLimitStore)} :
          LET ip == getClientIp(r)
              fresh == \/ ip \notin DOMAIN rateLimitStore
                       \/ WindowExpired(now, rateLimitStore[ip].resetTime)
              before == IF fresh THEN 0 ELSE validInWindow[ip]
          IN  /\ before < RATE_LIMIT_MAX + MaxOverLimit
              /\ rateLimitStore' = gate.store
              /\ validInWindow' =
                     [validInWindow EXCEPT
                        ![ip] = IF FullyValid(r, now) THEN before + 1 ELSE before]
              /\ req' = r
              /\ IF ~gate.next
                 THEN /\ res' = gate.res
                      /\ UNCHANGED <<inflight, passed>>
                 ELSE /\ passed' = [passed EXCEPT ![ip] = Append(@, now)]
                      /\ IF b = << >>
                         THEN /\ res' = SurveyHandler(r, TRUE, surveys).res
                              /\ inflight' = inflight
                         ELSE /\ res' = [NoRes EXCEPT !.handlerRan = TRUE]
                              /\ inflight' = Append(inflight, [r |-> r])
              /\ UNCHANGED <<now, ticks, surveys, admin_users, questions,
                             sessionToken, adminToken, loginHist, norm, legacyDb,
                             boot, kiosk>>

\* POST /api/survey from the INSERT on: the row is stored and the answer
\* is 201, or the INSERT fails and the answer is 500
SurveyFinish ==
    \E k \in 1..Len(inflight), dbOk \in BOOLEAN :
      \E out \in {SurveyHandler(inflight[k].r, dbOk, surveys)} :
        /\ inflight[k].r.route = "POST /api/survey"
        /\ inflight' = Remove(inflight, k)
        /\ req' = inflight[k].r
        /\ res' = out.res
        /\ surveys' = out.surveys
        /\ UNCHANGED <<now, ticks, rateLimitStore, admin_users, questions,
                       sessionToken, adminToken, validInWindow, loginHist, norm,
                       legacyDb, boot, passed, kiosk>>

-----------------------------------------------------------------------------
(* Startup of the server with the gate (src/unnamed/part_001) *)

maxRetries == 30

\* setTimeout(resolve, 2000)
RetryDelay == 2000

\* the process when start() is called
Starting ==
    [pc |-> "connect", retries |-> 0, waited |-> 0, listening |-> FALSE,
     exitCode |-> -1]

\* the process that serves requests: the first connection attempt succeeded
Running ==
    [pc |-> "listening", retries |-> 0, waited |-> 0, listening |-> TRUE,
     exitCode |-> -1]

\* the frame of the steps of the startup
BootFrame ==
    UNCHANGED <<now, ticks, rateLimitStore, surveys, questions, sessionToken,
                adminToken, req, res, validInWindow, loginHist, norm, inflight,
                legacyDb, passed, kiosk>>

\* one pass of the try block of initDatabase: createPool and getConnection;
\* a failure is counted in the catch block
Connect ==
    /\ boot.pc = "connect"
    /\ \E connected \in BOOLEAN :
         boot' = IF connected
                 THEN [boot EXCEPT !.pc = "ensureAdminUser"]
                 ELSE [boot EXCEPT !.pc = "delay", !.retries = @ + 1]
    /\ admin_users' = admin_users
    /\ BootFrame

RetryAgain_Forever(retries) == TRUE

\* while (retries < maxRetries)
RetryAgain(retries) == retries < maxRetries

\* the 2-second timer of the catch block fires, then the test of the while
\* loop: another attempt, or process.exit(1)
Delay ==
    /\ boot.pc = "delay"
    /\ boot.retries <= maxRetries    \* true of every run of the loop
    /\ boot' = IF RetryAgain(boot.retries)
               THEN [boot EXCEPT !.pc = "connect", !.waited = @ + RetryDelay]
               ELSE [boot EXCEPT !.pc = "exited", !.waited = @ + RetryDelay,
                                 !.exitCode = 1]
    /\ admin_users' = admin_users
    /\ BootFrame

\* ensureAdminUser, which catches its own errors, and return true
EnsureAdminUser ==
    /\ boot.pc = "ensureAdminUser"
    /\ \E configured \in BOOLEAN, dbOk \in BOOLEAN :
         admin_users' =
            IF ~(configured /\ dbOk) THEN admin_users
            ELSE IF "admin" \in DOMAIN admin_users
            THEN [admin_users EXCEPT !["admin"].password_hash = bcryptHash(AdminPassword)]
            ELSE MapSet(admin_users, "admin",
                        [id |-> 1, password_hash |-> bcryptHash(AdminPassword),
                         name |-> "Administrator", is_active |-> 1,
                         last_login |-> << >>])
    /\ boot' = [boot EXCEPT !.pc = "returned"]
    /\ BootFrame

\* start(): app.listen after initDatabase has returned
Listen ==
    /\ boot.pc = "returned"
    /\ boot' = [boot EXCEPT !.pc = "listening", !.listening = TRUE]
    /\ admin_users' = admin_users
    /\ BootFrame

-----------------------------------------------------------------------------
(* The kiosk page *)

MaxPasses == 1

MaxPending == 2

COUNTDOWN_SECONDS == 5

\* setTimeout of goToStep, setTimeout of handleRatingClick, setInterval of
\* startCountdown (ms)
TransitionDelay == 150

RatingDelay == 300

CountdownInterval == 1000

QueueIdLimit == 5

\* the screens: 'welcome', 'queue', 'complete', and the question steps, which
\* renderQuestions numbers from 1 in the order of the list
Screen(name) == [name |-> name, n |-> 0]

Step(n) == [name |-> "question", n |-> n]

\* a pending setTimeout or setInterval callback, rem ms from now
Timer(kind, rem) ==
    [kind |-> kind, rem |-> rem, step |-> Screen("welcome"), key |-> <<"q", 0>>,
     id |-> 0, seconds |-> 0]

\* the page before init(): the welcome screen is shown, nothing is bound
\* (sent, passes and visited record what the page has done: the bodies posted
\* and the question steps shown in the pass, and the passes begun)
KioskInit ==
    [loaded |-> FALSE, questionsData |-> << >>, TOTAL_QUESTIONS |-> 5,
     currentStep |-> Screen("welcome"), answers |-> << >>, queueId |-> << >>,
     countdownTimer |-> 0, isTransitioning |-> FALSE,
     shown |-> {Screen("welcome")}, timers |-> << >>, awaiting |-> << >>,
     sent |-> << >>, passes |-> 0, visited |-> << >>]

KioskFrame ==
    UNCHANGED <<now, ticks, rateLimitStore, surveys, admin_users, questions,
                sessionToken, adminToken, req, res, validInWindow, loginHist,
                norm, inflight, legacyDb, boot, passed>>

\* init(): loadQuestions, then bindEvents; the list is the answer of
\* GET /api/questions, and a failed request leaves the page without questions
LoadQuestions ==
    \E dbOk \in BOOLEAN :
      LET list == LegacyListActive(questions)
      IN  /\ ~kiosk.loaded
          /\ kiosk' = IF dbOk /\ Len(list) > 0
                      THEN [kiosk EXCEPT
                              !.loaded = TRUE,
                              !.questionsData =
                                  [i \in 1..Len(list) |-> questions[list[i]].question_key],
                              !.TOTAL_QUESTIONS = Len(list)]
                      ELSE [kiosk EXCEPT !.loaded = TRUE]
          /\ KioskFrame

\* document.getElementById('step-' + step): the three screens of the page and
\* the sections renderQuestions has written
HasElement(k, step) == step.name = "question" => step.n <= Len(k.questionsData)

\* goToStep(stepNumber)
goToStep(k, step) ==
    IF k.isTransitioning /\ step # Screen("welcome") THEN k
    ELSE IF HasElement(k, step)
    THEN [k EXCEPT !.isTransitioning = TRUE,
                   !.currentStep = step,
                   !.shown = @ \ {k.currentStep},
                   !.timers = Append(@, [Timer("activate", TransitionDelay)
                                            EXCEPT !.step = step])]
    ELSE [k EXCEPT !.isTransitioning = FALSE,
                   !.currentStep = step,
                   !.shown = @ \ {k.currentStep}]

\* clearInterval(id)
clearInterval(timers, id) ==
    SelectSeq(timers, LAMBDA t : ~(t.kind = "countdown" /\ t.id = id))

\* resetSurvey()
resetSurvey(k) ==
    goToStep([k EXCEPT !.timers = clearInterval(@, k.countdownTimer),
                       !.answers = << >>,
                       !.queueId = << >>,
                       !.isTransitioning = FALSE],
             Screen("welcome"))

\* the id setInterval returns: one no timer has and no variable holds
FreshId(k) ==
    1 + (IF MaxOf(k.timers, "id") > k.countdownTimer
         THEN MaxOf(k.timers, "id") ELSE k.countdownTimer)

\* startCountdown()
startCountdown(k) ==
    LET id == FreshId(k)
    IN  [k EXCEPT !.countdownTimer = id,
                  !.timers = Append(@, [Timer("countdown", CountdownInterval)
                                           EXCEPT !.id = id,
                                                  !.seconds = COUNTDOWN_SECONDS])]

\* submitSurvey(), up to the await of fetch: the body is posted
submitSurvey(k) ==
    [goToStep(k, Screen("complete")) EXCEPT
        !.sent = Append(@, k.answers),
        !.awaiting = Append(@, "survey")]

\* parseInt(question.replace('q', '')) of a key 'q<n>'
CurrentQuestionNum(key) == KeyNumber(key)

\* a tap on the welcome screen: startSurvey(), up to the await of fetch
TapStart ==
    /\ kiosk.loaded
    /\ Screen("welcome") \in kiosk.shown
    /\ ~kiosk.isTransitioning
    /\ kiosk.passes < MaxPasses
    /\ kiosk' = [kiosk EXCEPT !.answers = << >>,
                              !.awaiting = Append(@, "session"),
                              !.passes = @ + 1,
                              !.sent = << >>,
                              !.visited = << >>]
    /\ KioskFrame

\* the answer of a fetch arrives (or the fetch fails): startSurvey goes to the
\* queue screen; submitSurvey clears queueId and starts the countdown
FetchSettled ==
    \E i \in 1..Len(kiosk.awaiting) :
      LET rest == [kiosk EXCEPT !.awaiting = Remove(@, i)]
      IN  /\ kiosk' = IF kiosk.awaiting[i] = "session"
                      THEN goToStep(rest, Screen("queue"))
                      ELSE startCountdown([rest EXCEPT !.queueId = << >>])
          /\ KioskFrame

\* a tap on a key of the keypad: handleKeypadInput with a letter; the
\* respondent taps while fewer than presses characters are entered
TapKey(presses) ==
    /\ kiosk.loaded
    /\ Screen("queue") \in kiosk.shown
    /\ Len(kiosk.queueId) < presses
    /\ Len(kiosk.queueId) < QueueIdLimit
    /\ kiosk' = [kiosk EXCEPT !.queueId = IF @ = << >> THEN <<"A", "-">>
                                          ELSE Append(@, "A")]
    /\ KioskFrame

\* a tap on the submit key of the keypad
TapQueueSubmit ==
    /\ kiosk.loaded
    /\ Screen("queue") \in kiosk.shown
    /\ kiosk.queueId # << >>
    /\ kiosk' = goToStep(kiosk, Step(1))
    /\ KioskFrame

\* a tap on the back button of the first question
TapBack ==
    /\ kiosk.loaded
    /\ Step(1) \in kiosk.shown
    /\ kiosk.questionsData # << >>
    /\ kiosk' = resetSurvey(kiosk)
    /\ KioskFrame

\* a tap on an option of a question that is shown: handleRatingClick
TapRatingFrom(values, patient) ==
    \E n \in 1..Len(kiosk.questionsData), value \in values :
      /\ kiosk.loaded
      /\ Step(n) \in kiosk.shown
      /\ ~kiosk.isTransitioning
      /\ Len(kiosk.timers) < MaxPending
      /\ patient => \A i \in 1..Len(kiosk.timers) : kiosk.timers[i].kind # "rating"
      /\ kiosk' = [kiosk EXCEPT
                     !.answers = MapSet(@, kiosk.questionsData[n], value),
                     !.timers = Append(@, [Timer("rating", RatingDelay)
                                              EXCEPT !.key = kiosk.questionsData[n]])]
      /\ KioskFrame

\* the time to the next callback
NextDue(timers) ==
    CHOOSE d \in {timers[i].rem : i \in 1..Len(timers)} :
        \A i \in 1..Len(timers) : d <= timers[i].rem

\* time passes, up to the next callback at most
Elapse ==
    /\ kiosk.timers # << >>
    /\ NextDue(kiosk.timers) > 0
    /\ \E d \in {TransitionDelay, NextDue(kiosk.timers)} :
         /\ d <= NextDue(kiosk.timers)
         /\ kiosk' = [kiosk EXCEPT
                        !.timers = [i \in 1..Len(@) |->
                                      [@[i] EXCEPT !.rem = @ - d]]]
    /\ KioskFrame

\* the callback of the first timer that is due
Fire ==
    \E i \in 1..Len(kiosk.timers) :
      LET t == kiosk.timers[i]
          rest == [kiosk EXCEPT !.timers = Remove(@, i)]
          again == [kiosk EXCEPT !.timers[i].rem = CountdownInterval,
                                 !.timers[i].seconds = IF t.seconds > 1 THEN t.seconds - 1 ELSE 0]
      IN  /\ t.rem = 0
          /\ \A j \in 1..(i - 1) : kiosk.timers[j].rem > 0
          /\ kiosk' =
               CASE t.kind = "activate" ->
                      [rest EXCEPT !.shown = @ \cup {t.step},
                                   !.isTransitioning = FALSE,
                                   !.visited = IF t.step.name = "question"
                                               THEN Append(@, t.step.n) ELSE @]
                 [] t.kind = "rating" ->
                      IF CurrentQuestionNum(t.key) < kiosk.TOTAL_QUESTIONS
                      THEN goToStep(rest, Step(CurrentQuestionNum(t.key) + 1))
                      ELSE submitSurvey(rest)
                 [] t.kind = "countdown" ->
                      IF t.seconds - 1 <= 0
                      THEN resetSurvey([again EXCEPT
                                          !.timers = clearInterval(@, kiosk.countdownTimer)])
                      ELSE again
          /\ KioskFrame

-----------------------------------------------------------------------------

\* the state after startup, the normalized database apart
Started ==
    /\ now = 0
    /\ ticks = 0
    /\ rateLimitStore = << >>
    /\ surveys = EmptyBag
    /\ admin_users = SeedAdminUsers
    /\ questions = SeedQuestions
    /\ sessionToken = << >>
    /\ adminToken = << >>
    /\ req = NoReq
    /\ res = NoRes
    /\ validInWindow = [i \in IPs |-> 0]
    /\ loginHist = [wrong |-> 0, before |-> 0]
    /\ inflight = << >>
    /\ boot = Running
    /\ passed = [i \in IPs |-> << >>]
    /\ kiosk = KioskInit

Init ==
    /\ Started
    /\ norm = SeedDatabase(TRUE)
    /\ legacyDb = [strict |-> TRUE, nextQuestionId |-> 6]

\* the SQL mode of the database server is not set by the application
InitNorm ==
    /\ Started
    /\ \E strict \in BOOLEAN : norm = SeedDatabase(strict)
    /\ legacyDb = [strict |-> TRUE, nextQuestionId |-> 6]

InitLegacy ==
    /\ Started
    /\ norm = SeedDatabase(TRUE)
    /\ \E strict \in BOOLEAN : legacyDb = [strict |-> strict, nextQuestionId |-> 6]

AdminApi == AdminApiFrom(AdminRoutes)

\* the submission gate: any headers, from one client address
Next == Tick \/ GetSession \/ PostSurvey

Spec == Init /\ [][Next]_vars

\* the admin side
NextAuth == TickDay \/ AdminLogin \/ AdminApi

SpecAuth == Init /\ [][NextAuth]_vars

\* both kinds of token: submissions from one browser page, one admin who logs
\* in, and the dashboard
NextTokens ==
    \/ Tick
    \/ GetSession
    \/ AdminLoginFrom({"admin"}, {AdminPassword}, {0})
    \/ AdminApiFrom({"GET /admin/api/dashboard"})
    \/ PostSurveyFrom({Direct}, {SameSite}, {<<ExampleAnswers>>}, {TRUE})

SpecTokens == Init /\ [][NextTokens]_vars

\* the server with the normalized schema: submissions
NextNorm == NormSubmit

SpecNorm == InitNorm /\ [][NextNorm]_vars

\* a submission that answers the first two questions only
PartialAnswers ==
    Mapping(<<Entry(<<"q", "1">>, Str("sangat_baik")),
              Entry(<<"q", "2">>, Str("cukup_baik"))>>)

\* the server with the normalized schema: the question editor of one admin,
\* with submissions coming in
NextNormAdmin ==
    \/ AdminLoginFrom({"admin"}, {AdminPassword}, {0})
    \/ NormSubmitFrom({PartialAnswers}, {"none"})
    \/ NormAdmin

SpecNormAdmin == Init /\ [][NextNormAdmin]_vars

\* the server with the normalized schema: questions being created, by
\* handlers that may overlap, and deleted
NextNormCreate ==
    \/ AdminLoginFrom({"admin"}, {AdminPassword}, {0})
    \/ NormCreateBegin
    \/ NormCreateFinish
    \/ NormAdmin

SpecNormCreate == Init /\ [][NextNormCreate]_vars

\* the gate: one peer that chooses its address headers
NextHeaders ==
    \/ GetSession
    \/ PostSurveyOfPeer("10.0.0.1", {Direct, NamesOther, NamesOtherViaProxy},
                        {SameSite}, {<<ExampleAnswers>>}, BOOLEAN)

SpecHeaders == Init /\ [][NextHeaders]_vars

\* the kiosk page: taps and timers in any order
NextKiosk ==
    \/ LoadQuestions
    \/ TapStart
    \/ FetchSettled
    \/ TapKey(1)
    \/ TapQueueSubmit
    \/ TapBack
    \/ TapRatingFrom({"sangat_baik"}, FALSE)
    \/ Elapse
    \/ Fire

SpecKiosk == Init /\ [][NextKiosk]_vars

\* the kiosk page and the question editor: a respondent who taps one option
\* of each question that is shown and waits for the next
NextKioskPass ==
    \/ AdminLoginFrom({"admin"}, {AdminPassword}, {0})
    \/ LegacyAdminFrom({DeactivateThird})
    \/ LoadQuestions
    \/ TapStart
    \/ FetchSettled
    \/ TapKey(1)
    \/ TapQueueSubmit
    \/ TapRatingFrom({"sangat_baik"}, TRUE)
    \/ Elapse
    \/ Fire

SpecKioskPass == Init /\ [][NextKioskPass]_vars

\* the server with the normalized schema: questions being deleted while
\* submissions are committed
NextDeleteRace ==
    \/ AdminLoginFrom({"admin"}, {AdminPassword}, {0})
    \/ NormSubmitFrom({PartialAnswers}, {"none"})
    \/ NormDeleteBegin
    \/ NormDeleteFinish

SpecDeleteRace == Init /\ [][NextDeleteRace]_vars

\* the server with the gate: the question editor of one admin
NextLegacyAdmin ==
    \/ AdminLoginFrom({"admin"}, {AdminPassword}, {0})
    \/ LegacyAdmin
    \/ LegacyCreateBegin
    \/ LegacyCreateFinish

SpecLegacyAdmin == InitLegacy /\ [][NextLegacyAdmin]_vars

\* the server with the gate: submissions of one kiosk, an admin who switches
\* questions off and on and deletes one, and the reports
NextReports ==
    \/ GetSession
    \/ PostSurveyFrom({Direct}, {SameSite}, {<<ExampleAnswers>>}, {TRUE})
    \/ AdminLoginFrom({"admin"}, {AdminPassword}, {0})
    \/ LegacyAdminFrom({DeactivateThird, ResetDefaults, DeleteLast})
    \/ Reports

SpecReports == Init /\ [][NextReports]_vars

\* the gate around the end of a limiter window: one kiosk that keeps
\* submitting, with the clock a millisecond before and after the end
NextSliding ==
    \/ TickBy(<<RATE_LIMIT_WINDOW - 1, 2>>)
    \/ GetSession
    \/ PostSurveyLogged({Direct}, {SameSite}, {<<ExampleAnswers>>}, {TRUE})

SpecSliding == Init /\ [][NextSliding]_vars

\* the gate at the end of a limiter window: requests with good and bad
\* headers, with the clock at the end of the window and a millisecond later
NextLazy ==
    \/ Tick
    \/ GetSession
    \/ PostSurveyLogged({Direct, ViaProxy}, {SameSite, EvilOrigin},
                        {<<ExampleAnswers>>}, {TRUE})

SpecLazy == Init /\ [][NextLazy]_vars

\* one kiosk address whose requests arrive while earlier ones still wait
\* for the database
NextOverlap ==
    \/ WindowEnds
    \/ GetSession
    \/ SurveyBeginFrom({<< >>, sessionToken}, {<<ExampleAnswers>>})
    \/ SurveyFinish

SpecOverlap == Init /\ [][NextOverlap]_vars

\* requests while the database fails at any point
NextErrors ==
    \/ NormSubmitFrom(NormBodies, Faults \cup UnguardedFaults)
    \/ Health

SpecErrors == InitNorm /\ [][NextErrors]_vars

\* the process from start() on, the admin account not yet ensured
InitBoot ==
    /\ now = 0
    /\ ticks = 0
    /\ rateLimitStore = << >>
    /\ surveys = EmptyBag
    /\ admin_users \in {[u \in {"operator"} |-> SeedAdminUsers[u]],
                       [SeedAdminUsers EXCEPT
                          !["admin"].password_hash = bcryptHash("earlier-pass")]}
    /\ questions = SeedQuestions
    /\ sessionToken = << >>
    /\ adminToken = << >>
    /\ req = NoReq
    /\ res = NoRes
    /\ validInWindow = [i \in IPs |-> 0]
    /\ loginHist = [wrong |-> 0, before |-> 0]
    /\ inflight = << >>
    /\ norm = SeedDatabase(TRUE)
    /\ legacyDb = [strict |-> TRUE, nextQuestionId |-> 6]
    /\ boot = Starting
    /\ passed = [i \in IPs |-> << >>]
    /\ kiosk = KioskInit

\* a request is served only by a process that listens
ServedLogin ==
    /\ boot.listening
    /\ AdminLoginFrom({"admin"}, {AdminPassword}, {0})

NextBoot == Connect \/ Delay \/ EnsureAdminUser \/ Listen \/ ServedLogin

SpecBoot == InitBoot /\ [][NextBoot]_vars

-----------------------------------------------------------------------------
(* What the claims speak of, stated without the operators of the gate *)

\* the step handles a POST /api/survey
PostStep == req'.route = "POST /api/survey" /\ ticks' = ticks

\* a header that contains the Host value or a loopback hostname
NamesHost(header, host) ==
    /\ header # << >>
    /\ \/ Includes(header, host)
       \/ Includes(header, <<"localhost">>)
       \/ Includes(header, <<"127.0.0.1">>)

OriginFine(r) == NamesHost(r.origin, r.host) \/ NamesHost(r.referer, r.host)

\* a token signed by this server
Signed(c) == c # << >> /\ Head(c).key = JWT_SECRET

Expired(c, t) == c # << >> /\ (t \div 1000) >= Head(c).exp

HasSessionPurpose(c) ==
    /\ c # << >>
    /\ "type" \in DOMAIN Head(c).payload
    /\ Head(c).payload.type = "survey_session"

\* a cookie issued by GET /api/session and not yet expired at time t
GenuineSession(c, t) == Signed(c) /\ HasSessionPurpose(c) /\ ~Expired(c, t)

\* the count of ip in its current window at time t (0 when it has none)
EffCount(store, ip, t) ==
    IF ip \in DOMAIN store /\ t <= store[ip].resetTime THEN store[ip].count ELSE 0

PassedGate(response) == response.handlerRan /\ response.status \in {201, 400, 500}

Client == "10.0.0.1"

-----------------------------------------------------------------------------
(* Submission gate: claims *)

\* C1: among the requests of one client IP that have a valid origin and a valid
\* session cookie and arrive in one window of the limiter, the 1st to the 5th
\* pass the gate and the 6th and every later one is answered 429 with
\* retryAfter, a number of seconds within the window.
C1_FiveThenRejected ==
    [][ (PostStep /\ OriginFine(req') /\ GenuineSession(req'.cookie, now))
        => IF validInWindow'[req'.ip] <= RATE_LIMIT_MAX
           THEN PassedGate(res')
           ELSE /\ res'.status = 429
                /\ ~res'.handlerRan
                /\ res'.retryAfter \in 0..(RATE_LIMIT_WINDOW \div 1000)
                /\ surveys' = surveys ]_vars

\* the 5 requests before it passed, the 7th valid request of the window got 429
C1_Witness ==
    /\ req.route = "POST /api/survey"
    /\ validInWindow[Client] = RATE_LIMIT_MAX + 2
    /\ rateLimitStore[Client].count = RATE_LIMIT_MAX
    /\ res.status = 429

C3_CountOnlyOnPass ==
    [][ PostStep
        => LET before == EffCount(rateLimitStore, req'.ip, now)
               after == EffCount(rateLimitStore', req'.ip, now)
           IN  IF res'.handlerRan
               THEN after = before + 1
               ELSE /\ res'.status \in {429, 403, 401}
                    /\ after = before
                    /\ DOMAIN rateLimitStore' = DOMAIN rateLimitStore
                    /\ \A i \in DOMAIN rateLimitStore :
                         rateLimitStore'[i].count <= rateLimitStore[i].count ]_vars

\* after 4 accepted requests a rejected one left the counter at 4
C3_Witness ==
    /\ req.route = "POST /api/survey"
    /\ res.status \in {401, 403}
    /\ Client \in DOMAIN rateLimitStore
    /\ rateLimitStore[Client].count = 4
    /\ now <= rateLimitStore[Client].resetTime

\* C4: under the limit and with a valid session cookie, a request whose Origin
\* or Referer contains the Host value or a loopback hostname passes the gate,
\* and one whose headers are both absent or foreign is answered 403 with
\* nothing recorded; so the same request with Origin https://evil-site.com
\* instead of the site's own gets 403 instead of passing.
C4_OriginDecides ==
    [][ ( /\ PostStep
          /\ EffCount(rateLimitStore, req'.ip, now) < RATE_LIMIT_MAX
          /\ GenuineSession(req'.cookie, now) )
        => IF OriginFine(req')
           THEN PassedGate(res')
           ELSE /\ res'.status = 403
                /\ ~res'.handlerRan
                /\ surveys' = surveys
                /\ EffCount(rateLimitStore', req'.ip, now)
                     = EffCount(rateLimitStore, req'.ip, now) ]_vars

\* with a valid cookie and under the limit, Origin https://evil-site.com
\* (and nothing else wrong) got 403
C4_Witness ==
    /\ req.route = "POST /api/survey"
    /\ req.origin = EvilOrigin.origin
    /\ req.referer = << >>
    /\ req.cookie = sessionToken
    /\ GenuineSession(req.cookie, now)
    /\ res.status = 403

\* C6: a POST /api/survey with no session cookie, sent as the test sends it
\* (no Origin, no Referer, an IP under the limit), is answered 401.
C6_NoSessionGets401 ==
    ( /\ req.route = "POST /api/survey"
      /\ req.cookie = << >>
      /\ req.origin = << >>
      /\ req.referer = << >>
      /\ res.status # 429 )
    => res.status = 401

-----------------------------------------------------------------------------
(* Tokens: claims *)

BadCookie(c, t) ==
    \/ c = << >>
    \/ Expired(c, t)
    \/ ~Signed(c)
    \/ ~HasSessionPurpose(c)

\* C5, as claimed: past the rate and origin checks, a request with no cookie,
\* an expired one, a badly signed one or a validly signed one of another
\* purpose gets 401, has the cookie cleared, and records nothing.
C5_AlwaysCleared ==
    [][ (PostStep /\ res'.status \notin {429, 403} /\ BadCookie(req'.cookie, now))
        => /\ res'.status = 401
           /\ res'.clearCookie
           /\ ~res'.handlerRan
           /\ surveys' = surveys ]_vars

\* C5, amended: the same, but the cookie is cleared only when the request
\* presented one (a missing cookie gets 401 and no Set-Cookie).
C5_ClearedWhenPresented ==
    [][ (PostStep /\ res'.status \notin {429, 403} /\ BadCookie(req'.cookie, now))
        => /\ res'.status = 401
           /\ res'.clearCookie <=> (req'.cookie # << >>)
           /\ ~res'.handlerRan
           /\ surveys' = surveys ]_vars

\* an admin token (validly signed, other purpose) sent as the cookie got 401
\* and was cleared
C5_Witness ==
    /\ req.route = "POST /api/survey"
    /\ adminToken # << >>
    /\ req.cookie = adminToken
    /\ ~Expired(adminToken, now)
    /\ res.status = 401
    /\ res.clearCookie

\* C7: a token is usable only for the purpose it was issued for: the cookie of
\* GET /api/session never opens an admin route as a Bearer token, and a login
\* token never passes the session check as the cookie.
C7_PurposeScoped ==
    /\ ( /\ req.route \in AdminRoutes
         /\ Signed(req.authorization)
         /\ HasSessionPurpose(req.authorization) )
       => ~res.handlerRan
    /\ ( /\ req.route = "POST /api/survey"
         /\ Signed(req.cookie)
         /\ ~HasSessionPurpose(req.cookie) )
       => ~res.handlerRan

-----------------------------------------------------------------------------
(* Admin auth: claims *)

AdminStep == req'.route \in AdminRoutes /\ ticks' = ticks

LoginStep == req'.route = "POST /admin/login" /\ ticks' = ticks

\* no token, a malformed one, a wrong signature or an expired token
BadBearer(h, t) ==
    \/ h = << >>
    \/ Head(h) = Garbage
    \/ ~Signed(h)
    \/ Expired(h, t)

\* C8: the handler of an /admin/api route runs only when authenticate
\* succeeded for that request; with no token, a malformed token, a wrong
\* signature or an expired token the answer is 401 and no stored state changes.
C8_AdminNeedsToken ==
    [][ AdminStep
        => /\ res'.handlerRan => ~BadBearer(req'.authorization, now)
           /\ BadBearer(req'.authorization, now)
                => /\ res'.status = 401
                   /\ ~res'.handlerRan
                   /\ UNCHANGED <<surveys, admin_users, questions,
                                  rateLimitStore, boot, passed, kiosk>> ]_vars

\* the token of an earlier login, now expired, did not delete the question
C8_Witness ==
    /\ req.route = "DELETE /admin/api/questions/:id"
    /\ adminToken # << >>
    /\ req.authorization = adminToken
    /\ req.id \in DOMAIN questions
    /\ res.status = 401

\* the response to a login that is refused
Refused == [Json(401, "Invalid credentials") EXCEPT !.handlerRan = TRUE]

\* C9: for the active admin, while the database answers, a login with a wrong
\* password returns 401 without a token and changes nothing stored (so does a
\* second one: no lockout), a login with the correct password then returns
\* 200 with a token, and that token authorizes GET /admin/api/dashboard.
C9_LoginSequence ==
    [][ /\ ( /\ LoginStep
             /\ req'.username = "admin"
             /\ req'.password \notin {"", AdminPassword}
             /\ res'.status # 500 )
           => /\ res'.status = 401
              /\ res'.token = << >>
              /\ admin_users' = admin_users
              /\ adminToken' = adminToken
        /\ ( /\ LoginStep
             /\ req'.username = "admin"
             /\ req'.password = AdminPassword
             /\ res'.status # 500 )
           => /\ res'.status = 200
              /\ res'.token # << >>
              /\ adminToken' = res'.token
              /\ admin_users'["admin"].last_login = <<now>>
        /\ ( /\ AdminStep
             /\ req'.route = "GET /admin/api/dashboard"
             /\ adminToken # << >>
             /\ req'.authorization = adminToken
             /\ ~Expired(adminToken, now)
             /\ res'.status # 500 )
           => /\ res'.status = 200
              /\ res'.handlerRan ]_vars

\* two wrong passwords, then the correct one, then the dashboard with the token
C9_Witness ==
    /\ loginHist.before = 2
    /\ req.route = "GET /admin/api/dashboard"
    /\ adminToken # << >>
    /\ req.authorization = adminToken
    /\ res.status = 200

\* the login is for a user that does not exist, is inactive, or has another
\* password
FailingLogin(r, table) ==
    /\ r.username # ""
    /\ r.password # ""
    /\ \/ r.username \notin DOMAIN table
       \/ /\ r.username \in DOMAIN table
          /\ \/ table[r.username].is_active # 1
             \/ table[r.username].password_hash # bcryptHash(r.password)

\* C10: an unknown username, an inactive user and a wrong password get the
\* same response, status 401 with the same body (or, when the lookup fails,
\* the same 500), and none of them issues a token or updates last_login.
C10_SameRefusal ==
    [][ (LoginStep /\ FailingLogin(req', admin_users))
        => /\ res' = IF res'.status = 500
                     THEN [Json(500, "Server error") EXCEPT !.handlerRan = TRUE]
                     ELSE Refused
           /\ admin_users' = admin_users
           /\ adminToken' = adminToken ]_vars

\* the inactive user, with its own password, was refused like the others
C10_Witness ==
    /\ req.route = "POST /admin/login"
    /\ req.username = "operator"
    /\ req.password = OperatorPassword
    /\ res = Refused

-----------------------------------------------------------------------------
(* Normalized schema: claims *)

\* the rows of every table of the normalized database
Tables(db) ==
    <<db.questions, db.answer_options, db.survey_submissions,
      db.survey_responses, db.surveys>>

\* the rows of a table that a step appended
Added(before, after) == SubSeq(after, Len(before) + 1, Len(after))

\* the entries of a payload that resolve to a question and an option
Resolved(db, entries) ==
    {i \in 1..Len(entries) :
        /\ ParseInt(ReplaceQ(entries[i].key)) # NaN
        /\ ResolveOption(db, ParseInt(ReplaceQ(entries[i].key)),
                         entries[i].value) # 0}

AnsweredQuestion(e) ==
    IF Len(e.key) = 2 /\ e.key[1] = "q" /\ IsDigit(e.key[2]) THEN DigitValue(e.key[2])
    ELSE IF Len(e.key) = 1 /\ IsDigit(e.key[1]) THEN DigitValue(e.key[1])
    ELSE 0

\* the answer chosen by an entry: a value code that is an option of the
\* question, or the value of the option with that id ("" when there is none)
ChosenValue(db, e) ==
    LET q == AnsweredQuestion(e)
    IN  IF e.value.kind = "string"
        THEN IF \E o \in DOMAIN db.answer_options :
                   /\ db.answer_options[o].question_id = q
                   /\ db.answer_options[o].option_value = e.value.str
             THEN e.value.str ELSE ""
        ELSE IF /\ e.value.num \in DOMAIN db.answer_options
                /\ db.answer_options[e.value.num].question_id = q
             THEN db.answer_options[e.value.num].option_value ELSE ""

\* every entry answers a question of the catalog with one of its options, and
\* no question is answered twice
ValidSubmission(db, body) ==
    /\ body.kind = "object"
    /\ body.entries # << >>
    /\ \A i \in 1..Len(body.entries) :
         /\ AnsweredQuestion(body.entries[i]) \in DOMAIN db.questions
         /\ ChosenValue(db, body.entries[i]) # ""
    /\ \A i, j \in 1..Len(body.entries) :
         AnsweredQuestion(body.entries[i]) = AnsweredQuestion(body.entries[j]) => i = j

\* C12: after a valid submission returns successfully the dashboard total is
\* exactly one greater, for each question answered the count of the chosen
\* answer is exactly one greater, and every other count is unchanged.
C12_CountersFollow ==
    [][ ( /\ req'.route = "POST /api/survey"
          /\ res'.status = 201
          /\ ValidSubmission(norm, req'.body) )
        => LET before == dashboardSummary(norm.surveys)
               after == dashboardSummary(norm'.surveys)
               chosen(n, v) ==
                   \E i \in 1..Len(req'.body.entries) :
                       /\ AnsweredQuestion(req'.body.entries[i]) = n
                       /\ ChosenValue(norm, req'.body.entries[i]) = v
           IN  /\ after.total = before.total + 1
               /\ \A n \in 1..5, v \in {"sangat_baik", "cukup_baik", "kurang_baik"} :
                    after.counts[n][v]
                      = before.counts[n][v] + (IF chosen(n, v) THEN 1 ELSE 0) ]_vars

\* C13: in the normalized schema there is at most one Response row for each
\* (Submission, Question) pair, whatever payloads were accepted.
C13_OneResponsePerPair ==
    \A i, j \in 1..Len(norm.survey_responses) :
        ( /\ norm.survey_responses[i].submission_id
               = norm.survey_responses[j].submission_id
          /\ norm.survey_responses[i].question_id
               = norm.survey_responses[j].question_id )
        => i = j

\* the entries of a payload that answer a question of the catalog with one of
\* its options
GoodEntries(db, entries) ==
    {i \in 1..Len(entries) :
        /\ AnsweredQuestion(entries[i]) \in DOMAIN db.questions
        /\ ChosenValue(db, entries[i]) # ""}

\* C14: a payload that is a mapping is accepted (201, the database answering)
\* when it holds keys that name no question or value codes that match no
\* option: those entries give no Response row and every other entry is stored;
\* a payload that is missing or no mapping gets 400 and stores nothing.
C14_ToleratesBadEntries ==
    [][ (req'.route = "POST /api/survey" /\ res'.handlerRan)
        => /\ ( /\ req'.body.kind = "object"
                /\ req'.fault = "none"
                /\ GoodEntries(norm, req'.body.entries)
                     # 1..Len(req'.body.entries) )
                => /\ res'.status = 201
                   /\ Len(Added(norm.survey_responses, norm'.survey_responses))
                        = Cardinality(GoodEntries(norm, req'.body.entries))
           /\ req'.body.kind # "object"
                => /\ res'.status = 400
                   /\ Tables(norm') = Tables(norm) ]_vars

-----------------------------------------------------------------------------
(* Question catalog: claims *)

\* the step is the handler of a question-editor route answering, the
\* database answering
EditorStep(route) ==
    /\ req'.route = route
    /\ req'.path # << >>
    /\ res'.handlerRan
    /\ res'.status # 500

\* the question a request names in its path
NamedQuestion(r) == IdParam(r.path[2])

Referenced(db, id) ==
    \E k \in 1..Len(db.survey_responses) : db.survey_responses[k].question_id = id

OptionsOf(db, id) ==
    {o \in DOMAIN db.answer_options : db.answer_options[o].question_id = id}

\* C15, as claimed: delete(id) on a question that Responses reference fails
\* with a Conflict error (400 or 409) and removes neither the question nor a
\* response, the question being deactivated; on a question without responses
\* it removes the question together with its options.
C15_ConflictWhenReferenced ==
    [][ EditorStep("DELETE /admin/api/questions/:id")
        => LET id == NamedQuestion(req')
           IN  IF Referenced(norm, id)
               THEN /\ res'.status \in {400, 409}
                    /\ DOMAIN norm'.questions = DOMAIN norm.questions
                    /\ norm'.survey_responses = norm.survey_responses
               ELSE /\ id \notin DOMAIN norm'.questions
                    /\ OptionsOf(norm', id) = {} ]_vars

\* C15, amended: delete(id) on a question that Responses reference answers
\* success ('Question deactivated (has responses)'), deactivates the question
\* and removes neither it, nor an option, nor a response; on a question
\* without responses it answers success and removes the question together
\* with its options, and nothing else.
C15_DeactivatesWhenReferenced ==
    [][ EditorStep("DELETE /admin/api/questions/:id")
        => LET id == NamedQuestion(req')
           IN  IF Referenced(norm, id)
               THEN /\ res'.status = 200
                    /\ res'.message = "Question deactivated (has responses)"
                    /\ DOMAIN norm'.questions = DOMAIN norm.questions
                    /\ ~norm'.questions[id].is_active
                    /\ \A i \in DOMAIN norm.questions \ {id} :
                         norm'.questions[i] = norm.questions[i]
                    /\ norm'.answer_options = norm.answer_options
                    /\ norm'.survey_responses = norm.survey_responses
               ELSE /\ res'.status = 200
                    /\ res'.message = "Question deleted"
                    /\ id \notin DOMAIN norm'.questions
                    /\ OptionsOf(norm', id) = {}
                    /\ \A i \in DOMAIN norm.questions \ {id} :
                         /\ i \in DOMAIN norm'.questions
                         /\ norm'.questions[i] = norm.questions[i]
                         /\ OptionsOf(norm', i) = OptionsOf(norm, i)
                    /\ norm'.survey_responses = norm.survey_responses ]_vars

\* question 1 had responses: the delete answered success and deactivated it
C15_Witness ==
    /\ req.route = "DELETE /admin/api/questions/:id"
    /\ req.path = <<"questions", "1">>
    /\ res.status = 200
    /\ res.message = "Question deactivated (has responses)"
    /\ 1 \in DOMAIN norm.questions
    /\ ~norm.questions[1].is_active
    /\ Referenced(norm, 1)

\* the request carries the token of a login that is still valid
Authenticated(r, t) ==
    /\ adminToken # << >>
    /\ r.authorization = adminToken
    /\ ~Expired(adminToken, t)

\* the position the list gives for the question (last write wins), 0: none
RECURSIVE PositionGiven(_, _)
PositionGiven(order, id) ==
    IF order = << >> THEN 0
    ELSE IF order[Len(order)].id = id THEN order[Len(order)].order
    ELSE PositionGiven(SubSeq(order, 1, Len(order) - 1), id)

\* C16: after an authenticated PUT /admin/api/questions/reorder with a list of
\* (id, position), the stored position of every listed question is the
\* position given for it.
C16_ReorderApplies ==
    [][ ( /\ req'.method = "PUT"
          /\ req'.path = <<"questions", "reorder">>
          /\ req'.body.order # << >>
          /\ Authenticated(req', now)
          /\ res'.status # 500 )
        => \A id \in DOMAIN norm'.questions :
             PositionGiven(Head(req'.body.order), id) # 0
               => norm'.questions[id].question_order
                    = PositionGiven(Head(req'.body.order), id) ]_vars

\* the seed row of question n carries the seed key, text and option labels
SeedContent(row, n) ==
    /\ row.question_key = SeedQuestions[n].question_key
    /\ row.question_text = SeedQuestions[n].question_text
    /\ row.option_positive = SeedQuestions[n].option_positive
    /\ row.option_neutral = SeedQuestions[n].option_neutral
    /\ row.option_negative = SeedQuestions[n].option_negative

\* C17: resetToDefaults() followed by listActive() returns exactly the fixed
\* seed set of 5 questions (q1..q5 with the seed texts and option labels) under
\* the ids they had, from any catalog state reachable by create, update,
\* deactivate and delete
C17_ResetThenListIsSeed ==
    [][(EditorStep("POST /admin/api/questions/reset") /\ res'.status = 200)
          => /\ LegacyListActive(questions') = <<1, 2, 3, 4, 5>>
             /\ \A n \in 1..5 : SeedContent(questions'[n], n)]_vars

\* the fields of a question that the update request can carry
UpdateFields ==
    {"question_text", "question_subtitle", "option_positive", "option_neutral",
     "option_negative"}

\* C18: update(id, fields) is a partial update: it changes exactly the fields
\* present in the request and leaves every absent field, and every other
\* question, unchanged; an update without the active flag does not deactivate
C18_PartialUpdate ==
    [][(/\ EditorStep("PUT /admin/api/questions/:id")
        /\ res'.status = 200
        /\ NamedQuestion(req') \in DOMAIN questions)
          => /\ DOMAIN questions' = DOMAIN questions
             /\ \A i \in DOMAIN questions \ {NamedQuestion(req')} :
                    questions'[i] = questions[i]
             /\ \A f \in UpdateFields :
                    questions'[NamedQuestion(req')][f] =
                        IF req'.body[f] = << >>
                        THEN questions[NamedQuestion(req')][f]
                        ELSE Head(req'.body[f])
             /\ questions'[NamedQuestion(req')].is_active =
                    IF req'.body.is_active = << >>
                    THEN questions[NamedQuestion(req')].is_active
                    ELSE IF Head(req'.body.is_active) THEN 1 ELSE 0
             /\ questions'[NamedQuestion(req')].question_key =
                    questions[NamedQuestion(req')].question_key
             /\ questions'[NamedQuestion(req')].display_order =
                    questions[NamedQuestion(req')].display_order]_vars

\* a create request has been answered in this step
CreateStep ==
    /\ req'.route = "POST /admin/api/questions"
    /\ Len(inflight') < Len(inflight)

\* no two questions of the table share the value of the column
Distinct(table, column) ==
    \A i, j \in DOMAIN table : i # j => table[i][column] # table[j][column]

\* C19: create assigns the next ordinal position: the new question's position
\* is greater than that of every question that existed, no two questions share
\* a position, also when two create handlers overlap, and every create that
\* returned success has its question stored
C19_CreateNextPosition ==
    [][(CreateStep /\ res'.status = 201)
          => /\ res'.id \in DOMAIN norm.questions' \ DOMAIN norm.questions
             /\ \A i \in DOMAIN norm.questions :
                    norm.questions[i].question_order
                        < norm.questions'[res'.id].question_order
             /\ Distinct(norm.questions', "question_order")]_vars

\* the counts of the answers given to the question with this key: the kiosk
\* sends them under the key, and the server stores q1..q5 in their columns
OwnCounts(rows, key) ==
    [v \in {"sangat_baik", "cukup_baik", "kurang_baik"} |->
        IF key[2] \in 1..5 THEN ColumnCount(rows, key[2], v) ELSE 0]

\* a report has been answered in this step
ReportStep ==
    /\ req'.route \in ReportRoutes
    /\ res'.handlerRan
    /\ res'.status = 200

\* C20: for every set of active questions the counts that the dashboard, the
\* monthly report and the PDF export attribute to an active question are that
\* question's own answer counts, and the PDF summary cards show the counts of
\* the last active question
C20_NoDrift ==
    [][ReportStep
          => /\ \A k \in 1..Len(res'.questionsList) :
                    res'.questionsList[k].stats
                        = OwnCounts(surveys, res'.questionsList[k].key)
             /\ \A c \in 1..Len(res'.cards) :
                    LegacyListActive(questions) # << >>
                        => res'.cards[c]
                             = OwnCounts(surveys,
                                 questions[LegacyListActive(questions)[
                                     Len(LegacyListActive(questions))]].question_key)]_vars

\* failed attempts so far and the delays that followed them
FailedThenDelayed(b) ==
    b.waited = RetryDelay * (IF b.pc = "delay" THEN b.retries - 1 ELSE b.retries)

\* C21: the startup retry is bounded: initDatabase returns after a successful
\* connection, or after exactly 30 failed attempts, each followed by the fixed
\* 2-second delay, the process exits with a non-zero code; the server never
\* listens before a connection succeeded
C21_BoundedRetry ==
    /\ boot.retries <= maxRetries
    /\ FailedThenDelayed(boot)
    /\ boot.pc = "exited"
         <=> (boot.exitCode # -1)
    /\ boot.pc = "exited"
         => boot.retries = maxRetries /\ boot.exitCode = 1 /\ ~boot.listening
    /\ boot.pc = "connect" => boot.retries < maxRetries
    /\ boot.listening => boot.pc = "listening" /\ boot.retries < maxRetries
    /\ boot.pc \in {"ensureAdminUser", "returned"} => ~boot.listening
    /\ res.status # 0 => boot.listening

\* C21: the process has given up after the last attempt failed
C21_Witness ==
    /\ boot.pc = "exited"
    /\ boot.retries = maxRetries
    /\ boot.waited = maxRetries * RetryDelay

\* the statuses of the error taxonomy and of the interfaces
MappedStatuses == {200, 201, 400, 401, 403, 404, 409, 429, 500, 503}

\* C22: every failure inside a request handler is caught at the request
\* boundary and answered with one of the mapped statuses and a generic
\* message: no request stays without a response and no raw internal error
\* text reaches the client
C22_CaughtAtBoundary ==
    [][/\ res'.status \in MappedStatuses
       /\ res'.error # DriverMessage]_vars

\* the requests of the log that lie in an interval of the length of the
\* window that starts at the k-th of them
InInterval(log, k) ==
    {j \in k..Len(log) : log[j] - log[k] < RATE_LIMIT_WINDOW}

\* C23: sliding bound: for every client IP and every interval of 10 minutes,
\* wherever it starts, at most 5 requests from that IP pass the gate
C23_SlidingBound ==
    \A ip \in IPs : \A k \in 1..Len(passed[ip]) :
        Cardinality(InInterval(passed[ip], k)) <= RATE_LIMIT_MAX

\* the limiter holds the IP at the limit: its requests are answered 429
AtLimit(store, ip) == ip \in DOMAIN store /\ store[ip].count >= RATE_LIMIT_MAX

\* C24: the rate limit is never permanent: for an IP at the limit, the first
\* request after windowResetTime is evaluated with count 0 and a new window of
\* 10 minutes that starts at that request, and passes if its origin and cookie
\* are valid; until windowResetTime every request of the IP is answered 429
\* with retryAfter between 0 and 600 seconds
C24_LazyReset ==
    [][(PostStep /\ AtLimit(rateLimitStore, getClientIp(req')))
          => LET ip == getClientIp(req')
                 valid == OriginFine(req') /\ GenuineSession(req'.cookie, now)
             IN  IF now > rateLimitStore[ip].resetTime
                 THEN /\ rateLimitStore'[ip].resetTime = now + RATE_LIMIT_WINDOW
                      /\ rateLimitStore'[ip].count = IF valid THEN 1 ELSE 0
                      /\ res'.status # 429
                      /\ valid => PassedGate(res')
                 ELSE /\ res'.status = 429
                      /\ res'.retryAfter \in 0..600
                      /\ ~res'.handlerRan
                      /\ rateLimitStore' = rateLimitStore]_vars

\* C24: five requests passed in the first window, the IP was held until its
\* end, and the first request after it has passed in a new window
C24_Witness ==
    /\ Len(passed[Client]) = RATE_LIMIT_MAX + 1
    /\ passed[Client][RATE_LIMIT_MAX] <= RATE_LIMIT_WINDOW
    /\ passed[Client][RATE_LIMIT_MAX + 1] > RATE_LIMIT_WINDOW
    /\ rateLimitStore[Client] = [count |-> 1, resetTime |-> now + RATE_LIMIT_WINDOW]
    /\ PassedGate(res)

\* the requests of the IP that reached the handler in the window the limiter
\* holds for it
ReachedInWindow(ip) ==
    {k \in 1..Len(passed[ip]) :
        passed[ip][k] >= rateLimitStore[ip].resetTime - RATE_LIMIT_WINDOW}

\* C25: the read-check-increment of the limiter is atomic with respect to
\* other requests: under any interleaving of requests of one IP, with handlers
\* of earlier requests still waiting for the database, the counter never
\* exceeds 5 and it counts every request that reached the handler in the
\* window, so never more than 5 of one window reach it
C25_AtomicCounter ==
    \A ip \in DOMAIN rateLimitStore :
        /\ rateLimitStore[ip].count <= RATE_LIMIT_MAX
        /\ Cardinality(ReachedInWindow(ip)) = rateLimitStore[ip].count

\* C25: the fifth request of a window has reached the handler while the
\* handlers of the four before it still wait for the database
C25_Witness ==
    /\ Len(inflight) = RATE_LIMIT_MAX
    /\ rateLimitStore[Client].count = RATE_LIMIT_MAX
    /\ \A k \in 1..Len(inflight) : inflight[k].r.route = "POST /api/survey"

\* the rows of survey_responses, as a set
Committed(db) == {db.survey_responses[k] : k \in 1..Len(db.survey_responses)}

\* C26: a step that finishes DELETE /admin/api/questions/:id removes no
\* response row that was committed before the step
C26_DeleteKeepsResponses ==
    [][req'.route = "DELETE /admin/api/questions/:id" /\ Len(inflight') < Len(inflight)
          => Committed(norm) \subseteq Committed(norm')]_vars

\* C27: whatever X-Forwarded-For and X-Real-IP headers its requests carry, at
\* most 5 requests of one peer pass the gate in one window of the limiter (the
\* clock stands still here, so every request falls in the first window)
C27_PeerBound == Len(passed[Client]) <= RATE_LIMIT_MAX

\* the slots of the window that is current at time t which ip has used
SlotsUsed(store, ip, t) ==
    IF ip \in DOMAIN store /\ ~WindowExpired(t, store[ip].resetTime)
    THEN store[ip].count ELSE 0

\* C28: a POST /api/survey that passes the gate and is then answered 400
\* (invalid survey data) or 500 (failed to save) leaves the number of slots
\* its IP has used in the current window as it was
C28_OnlyRecordedCount ==
    [][req'.route = "POST /api/survey" /\ res'.handlerRan /\ res'.status \in {400, 500}
          => SlotsUsed(rateLimitStore', getClientIp(req'), now)
               = SlotsUsed(rateLimitStore, getClientIp(req'), now)]_vars

-----------------------------------------------------------------------------
(* The kiosk page: claims *)

\* the setInterval callbacks of startCountdown that are pending
Countdowns(k) == {i \in 1..Len(k.timers) : k.timers[i].kind = "countdown"}

\* C29: in one pass from the welcome screen, whatever the order of taps and
\* timers, the page sends at most one POST /api/survey and at most one
\* countdown timer is active
C29_OnePostPerPass ==
    /\ Len(kiosk.sent) <= 1
    /\ Cardinality(Countdowns(kiosk)) <= 1

\* the keys of the questions the page has loaded
LoadedKeys == {kiosk.questionsData[i] : i \in 1..Len(kiosk.questionsData)}

\* C30: when the page posts the answers of a respondent who answered each
\* question shown, every question of the loaded list has been shown once, in
\* the order of the list, and has its answer in the body
C30_EveryQuestionOnce ==
    \A i \in 1..Len(kiosk.sent) :
        /\ DOMAIN kiosk.sent[i] = LoadedKeys
        /\ kiosk.visited = [n \in 1..Len(kiosk.questionsData) |-> n]

====
